---- MODULE Spec2Model ----
(***************************************************************************)
(* Model of the dyslexia question engine of evandrarf/dinacom-be: the      *)
(* usecase (Generate, SubmitAnswer and their helpers) over the repository  *)
(* (generated_questions and user_answers tables).                          *)
(*                                                                         *)
(* Specifications:                                                         *)
(*   Spec            one Generate call with one slot or over the cache,    *)
(*                   every reply of the LLM, the goroutines it starts      *)
(*   SpecSlots       one Generate call with several slots or over the      *)
(*                   cache, every slot giving a fallback question          *)
(*   SpecSubmit      SubmitAnswer calls one after another                  *)
(*   SpecConcurrent  SubmitAnswer calls whose repository calls interleave  *)
(***************************************************************************)
EXTENDS Integers, Sequences, FiniteSets, Bags, TLC

(***************************************************************************)
(* Bounds of the model                                                     *)
(***************************************************************************)
\* largest number of generation slots one modelled Generate call may start
MaxSlots == 2
\* number of rows the user_answers table may hold
MaxAnswers == 2
\* period of the modelled pseudo-random generator
RndMod == 2
\* usage_count up to which a further Generate call is modelled
MaxUsageCount == 2
\* background goroutines that may still be pending when the next call starts
MaxPending == 1

(***************************************************************************)
(* Program constants                                                       *)
(***************************************************************************)
MinCount == 1
MaxCount == 10
MaxReplacements == 5
MinOptions == 2

(***************************************************************************)
(* Strings.  A Go string is named by a TLA+ string; Chars gives its bytes, *)
(* so that strings.ToUpper, strings.ToLower, strings.TrimSpace and         *)
(* strings.Split are computed on the characters.                           *)
(***************************************************************************)
LowerLetters == <<"a", "b", "d", "k", "m", "n", "p", "q", "t", "u", "w", "x", "y">>
UpperLetters == <<"A", "B", "D", "K", "M", "N", "P", "Q", "T", "U", "W", "X", "Y">>

Chars(s) ==
  CASE s = "" -> <<>>
    [] s = "b-d" -> <<"b", "-", "d">>
    [] s = "p-q" -> <<"p", "-", "q">>
    [] s = "m-w" -> <<"m", "-", "w">>
    [] s = "n-u" -> <<"n", "-", "u">>
    [] s = "m-n" -> <<"m", "-", "n">>
    [] s = "x-y" -> <<"x", "-", "y">>
    [] s = " P-Q " -> <<" ", "P", "-", "Q", " ">>
    [] s = "B-D" -> <<"B", "-", "D">>
    [] s = "P-Q" -> <<"P", "-", "Q">>
    [] s = "kata" -> <<"k", "a", "t", "a">>
    [] s = "KATA" -> <<"K", "A", "T", "A">>
    [] s = "Kata" -> <<"K", "a", "t", "a">>
    [] s = " kata " -> <<" ", "k", "a", "t", "a", " ">>
    [] s = " KATA " -> <<" ", "K", "A", "T", "A", " ">>
    [] s = "data" -> <<"d", "a", "t", "a">>
    [] s = "DATA" -> <<"D", "A", "T", "A">>
    [] s = "b" -> <<"b">>
    [] s = "p" -> <<"p">>
    [] s = "m" -> <<"m">>
    [] s = "n" -> <<"n">>
    [] s = " " -> <<" ">>
    [] s = "halo" -> <<"h", "a", "l", "o">>

Vocabulary ==
  {"", "b-d", "p-q", "m-w", "n-u", "m-n", "x-y", " P-Q ", "B-D", "P-Q", "kata",
   "KATA", "Kata", " kata ", " KATA ", "data", "DATA", "b", "p", "m", "n", " ",
   "halo"}

\* the string whose bytes are cs
Str(cs) == CHOOSE s \in Vocabulary : Chars(s) = cs

IndexIn(seq, c) == CHOOSE i \in 1..Len(seq) : seq[i] = c

UpperChar(c) ==
  IF \E i \in 1..Len(LowerLetters) : LowerLetters[i] = c
    THEN UpperLetters[IndexIn(LowerLetters, c)]
    ELSE c

LowerChar(c) ==
  IF \E i \in 1..Len(UpperLetters) : UpperLetters[i] = c
    THEN LowerLetters[IndexIn(UpperLetters, c)]
    ELSE c

ToUpper(s) == Str([i \in 1..Len(Chars(s)) |-> UpperChar(Chars(s)[i])])

ToLower(s) == Str([i \in 1..Len(Chars(s)) |-> LowerChar(Chars(s)[i])])

RECURSIVE TrimLeft(_)
TrimLeft(cs) ==
  IF cs # <<>> /\ Head(cs) = " " THEN TrimLeft(Tail(cs)) ELSE cs

RECURSIVE TrimRight(_)
TrimRight(cs) ==
  IF cs # <<>> /\ cs[Len(cs)] = " "
    THEN TrimRight(SubSeq(cs, 1, Len(cs) - 1))
    ELSE cs

TrimSpace(s) == Str(TrimRight(TrimLeft(Chars(s))))

\* strings.Split(letterPair, "-")[0]
TargetLetterOf(pair) ==
  LET cs == Chars(pair)
      cut == IF \E i \in 1..Len(cs) : cs[i] = "-"
               THEN (CHOOSE i \in 1..Len(cs) :
                       cs[i] = "-" /\ \A j \in 1..(i - 1) : cs[j] # "-") - 1
               ELSE Len(cs)
  IN  Str(SubSeq(cs, 1, cut))

(***************************************************************************)
(* Sequence helpers                                                        *)
(***************************************************************************)
Range(seq) == {seq[i] : i \in 1..Len(seq)}

Min(a, b) == IF a < b THEN a ELSE b

NoDuplicates(seq) == \A i, j \in 1..Len(seq) : i # j => seq[i] # seq[j]

\* number of positions of seq that hold x
Occurrences(seq, x) == Cardinality({i \in 1..Len(seq) : seq[i] = x})

IsPermutationOf(a, b) ==
  /\ Len(a) = Len(b)
  /\ \A x \in Range(a) \cup Range(b) : Occurrences(a, x) = Occurrences(b, x)

(***************************************************************************)
(* Inputs of the model                                                     *)
(***************************************************************************)
\* outcomes of generateQuestionID: the hash covers a timestamp and random
\* bytes, so the value is not determined by the word and the difficulty
IDs == {1, 2, 3}

Users == {"u1", "u2"}

Sessions == {"s1", "s2"}

\* texts a client submits as its answer
AnswerInputs == {"kata", " KATA ", "data"}

allLetterPairs == <<"b-d", "p-q", "m-w", "n-u", "m-n">>

QuestionTextStatic == "Dengarkan kata berikut: "

(***************************************************************************)
(* State                                                                   *)
(***************************************************************************)
VARIABLES
  generated,  \* table generated_questions: a set of rows, question_id unique
  answers,    \* table user_answers: the rows in insertion order
  disableAI,  \* configuration llm.gemini.disable_ai_prompt
  rnd,        \* state of the engine's pseudo-random generator u.rnd
  gen,        \* the Generate call: its locals and its position
  resultChan, \* resultChan of the Generate call, a FIFO of slot results
  tasks,      \* background goroutines that were started and have not run yet
  sub,        \* SubmitAnswer calls in flight: locals and position per request
  resp,       \* what the last finished SubmitAnswer call returned
  firstResp,  \* per (user, session, question): response of the creating call
  aiTruth,    \* history: <<ID, correctAnswer>> of every question the LLM gave
  saved,      \* history: the questions whose row saveGeneratedToDB created
  hasGemini,  \* configuration: cfg.Gemini is not nil
  analysisCache, \* table session_analysis_caches: a set of rows, session_id unique
  chatMessages,  \* table chat_messages: the rows in insertion order
  rep,        \* the GenerateSessionReport call: its locals and its position
  chat        \* the ChatWithBot call: its locals and its position

storeVars == <<generated, answers>>

genVars == <<disableAI, rnd, gen, resultChan, tasks, aiTruth>>

subVars == <<sub, resp, firstResp>>

reportVars == <<hasGemini, analysisCache, chatMessages, rep, chat>>

vars == <<generated, answers, disableAI, rnd, gen, resultChan, tasks,
          sub, resp, firstResp, aiTruth, saved, hasGemini, analysisCache,
          chatMessages, rep, chat>>

(***************************************************************************)
(* Repository                                                              *)
(***************************************************************************)
\* FindGeneratedByQuestionID: the row, or an error when there is none
HasGenerated(rows, qid) == \E row \in rows : row.QuestionID = qid

FindGeneratedByQuestionID(rows, qid) ==
  CHOOSE row \in rows : row.QuestionID = qid

\* CreateGenerated: question_id carries a unique index, a second row with the
\* same question_id is refused
CreateGenerated(rows, row) ==
  IF HasGenerated(rows, row.QuestionID) THEN rows ELSE rows \cup {row}

\* an update that sets the counter back to 1
UsageCountReset(rows, qid) ==
  {IF row.QuestionID = qid THEN [row EXCEPT !.UsageCount = 1] ELSE row : row \in rows}

\* IncrementUsageCount: UPDATE ... SET usage_count = usage_count + 1
IncrementUsageCount(rows, qid) ==
  {IF row.QuestionID = qid
     THEN [row EXCEPT !.UsageCount = row.UsageCount + 1]
     ELSE row : row \in rows}

\* FindExistingAnswer: the first row of the triple, or an error when none
ExistingIndexes(rows, userID, sessionID, questionID) ==
  {i \in 1..Len(rows) : /\ rows[i].UserID = userID
                        /\ rows[i].SessionID = sessionID
                        /\ rows[i].QuestionID = questionID}

HasExistingAnswer(rows, userID, sessionID, questionID) ==
  ExistingIndexes(rows, userID, sessionID, questionID) # {}

FindExistingAnswer(rows, userID, sessionID, questionID) ==
  LET idx == ExistingIndexes(rows, userID, sessionID, questionID)
  IN  rows[CHOOSE i \in idx : \A j \in idx : i <= j]

\* CreateUserAnswer: INSERT; user_answers has no unique index on the triple
CreateUserAnswer(rows, row) == Append(rows, row)

\* FindUserAnswersBySessionID: ORDER BY answered_at DESC, newest row first
RECURSIVE FindUserAnswersBySessionID(_, _)
FindUserAnswersBySessionID(rows, sessionID) ==
  IF rows = <<>> THEN <<>>
  ELSE LET rest == FindUserAnswersBySessionID(Tail(rows), sessionID)
       IN  IF Head(rows).SessionID = sessionID
             THEN Append(rest, Head(rows))
             ELSE rest

(***************************************************************************)
(* SubmitAnswer                                                            *)
(***************************************************************************)
Requests ==
  [UserID : Users, SessionID : Sessions, QuestionID : IDs, Answer : AnswerInputs]

NoResp == [kind |-> "none"]

\* a comparison of the texts as they are
ExactMatch(answer, correct) == answer = correct

\* correctness: strings.TrimSpace(strings.ToUpper(x)) of both sides, compared
IsCorrectAnswer(answer, correct) ==
  TrimSpace(ToUpper(answer)) = TrimSpace(ToUpper(correct))

\* the response built from the record found by FindExistingAnswer
ExistingResponse(req, existing) ==
  [kind |-> "ok", existed |-> TRUE, req |-> req,
   IsCorrect |-> existing.IsCorrect,
   UserAnswer |-> existing.UserAnswer,
   CorrectAnswer |-> existing.CorrectAnswer,
   QuestionID |-> existing.QuestionID,
   SessionID |-> existing.SessionID]

NotFoundResponse(req) ==
  [kind |-> "error", existed |-> FALSE, req |-> req, err |-> "question not found"]

\* the row SubmitAnswer saves
UserAnswerEntity(req, generatedQ) ==
  [UserID |-> req.UserID,
   SessionID |-> req.SessionID,
   QuestionID |-> req.QuestionID,
   UserAnswer |-> req.Answer,
   CorrectAnswer |-> generatedQ.CorrectAnswer,
   IsCorrect |-> IsCorrectAnswer(req.Answer, generatedQ.CorrectAnswer),
   QuestionText |-> generatedQ.QuestionText,
   Difficulty |-> generatedQ.Difficulty]

CreatedResponse(req, generatedQ) ==
  [kind |-> "ok", existed |-> FALSE, req |-> req,
   IsCorrect |-> IsCorrectAnswer(req.Answer, generatedQ.CorrectAnswer),
   UserAnswer |-> req.Answer,
   CorrectAnswer |-> generatedQ.CorrectAnswer,
   QuestionID |-> req.QuestionID,
   SessionID |-> req.SessionID]

Triple(req) == <<req.UserID, req.SessionID, req.QuestionID>>

\* a SubmitAnswer that never finds an existing record
AnswerNeverExists(rows, req) == FALSE

\* the existing-record test of SubmitAnswer: err == nil && existingAnswer != nil
AnswerAlreadyExists(rows, req) ==
  HasExistingAnswer(rows, req.UserID, req.SessionID, req.QuestionID)

SaveFailedResponse(req) ==
  [kind |-> "error", existed |-> FALSE, req |-> req, err |-> "failed to save answer"]

\* a handler that takes every INSERT for done
SaveNeverFails(createErr) == FALSE

\* the error test after CreateUserAnswer: err != nil
SaveFailed(createErr) == createErr

\* one whole SubmitAnswer call, no other request running; createErr tells
\* whether the INSERT of CreateUserAnswer, when the call makes it, fails
SubmitAnswerWith(req, createErr) ==
  /\ \A p \in DOMAIN sub : sub[p].pc = "idle"
  /\ \/ Len(answers) < MaxAnswers
     \/ AnswerAlreadyExists(answers, req)
  /\ IF AnswerAlreadyExists(answers, req)
       THEN /\ resp' = ExistingResponse(req,
                         FindExistingAnswer(answers, req.UserID, req.SessionID,
                                            req.QuestionID))
            /\ UNCHANGED <<answers, firstResp>>
       ELSE IF ~HasGenerated(generated, req.QuestionID)
         THEN /\ resp' = NotFoundResponse(req)
              /\ UNCHANGED <<answers, firstResp>>
       ELSE IF SaveFailed(createErr)
         THEN /\ resp' = SaveFailedResponse(req)
              /\ UNCHANGED <<answers, firstResp>>
         ELSE LET generatedQ == FindGeneratedByQuestionID(generated, req.QuestionID)
              IN  /\ answers' = CreateUserAnswer(answers, UserAnswerEntity(req, generatedQ))
                  /\ resp' = CreatedResponse(req, generatedQ)
                  /\ firstResp' = [firstResp EXCEPT ![Triple(req)] =
                                     CreatedResponse(req, generatedQ)]
  /\ UNCHANGED <<generated, sub>>
  /\ UNCHANGED genVars
  /\ UNCHANGED saved
  /\ UNCHANGED reportVars

\* a SubmitAnswer call whose repository calls all succeed
SubmitAnswer(req) == SubmitAnswerWith(req, FALSE)

(***************************************************************************)
(* SubmitAnswer of concurrent requests: each repository call is one step.  *)
(* sub[p] holds the request of handler p, its locals and its position.     *)
(***************************************************************************)
Procs == {1, 2}

\* the zero value of entity.SubmitAnswerRequest
NoReq == [UserID |-> "", SessionID |-> "", QuestionID |-> 0, Answer |-> ""]

\* the zero value of the entity GeneratedQuestion of the cache table
ZeroGeneratedRow ==
  [QuestionID |-> 0, TemplateID |-> "", Difficulty |-> "", QuestionText |-> "",
   TargetLetterPair |-> "", TargetLetter |-> "", Options |-> <<>>,
   CorrectAnswer |-> "", GeneratedBy |-> "", UsageCount |-> 0]

IdleSub == [pc |-> "idle", req |-> NoReq, generatedQ |-> ZeroGeneratedRow, resp |-> NoResp]

\* FindExistingAnswer of handler p: an existing record ends the call
SubmitFindExisting(p, req) ==
  /\ sub[p].pc = "idle"
  /\ IF AnswerAlreadyExists(answers, req)
       THEN sub' = [sub EXCEPT ![p] =
              [IdleSub EXCEPT !.pc = "done", !.req = req,
                 !.resp = ExistingResponse(req,
                            FindExistingAnswer(answers, req.UserID, req.SessionID,
                                               req.QuestionID))]]
       ELSE sub' = [sub EXCEPT ![p] = [IdleSub EXCEPT !.pc = "lookup", !.req = req]]
  /\ UNCHANGED <<resp, firstResp>>
  /\ UNCHANGED storeVars
  /\ UNCHANGED genVars
  /\ UNCHANGED saved
  /\ UNCHANGED reportVars

\* FindGeneratedByQuestionID of handler p: an unknown question ends the call
SubmitFindGenerated(p) ==
  /\ sub[p].pc = "lookup"
  /\ IF ~HasGenerated(generated, sub[p].req.QuestionID)
       THEN sub' = [sub EXCEPT ![p].pc = "done",
                               ![p].resp = NotFoundResponse(sub[p].req)]
       ELSE sub' = [sub EXCEPT ![p].pc = "create",
                               ![p].generatedQ =
                                 FindGeneratedByQuestionID(generated, sub[p].req.QuestionID)]
  /\ UNCHANGED <<resp, firstResp>>
  /\ UNCHANGED storeVars
  /\ UNCHANGED genVars
  /\ UNCHANGED saved
  /\ UNCHANGED reportVars

\* CreateUserAnswer of handler p and the response
SubmitCreate(p) ==
  /\ sub[p].pc = "create"
  /\ answers' = CreateUserAnswer(answers, UserAnswerEntity(sub[p].req, sub[p].generatedQ))
  /\ sub' = [sub EXCEPT ![p].pc = "done",
                        ![p].resp = CreatedResponse(sub[p].req, sub[p].generatedQ)]
  /\ UNCHANGED <<generated, resp, firstResp>>
  /\ UNCHANGED genVars
  /\ UNCHANGED saved
  /\ UNCHANGED reportVars

(***************************************************************************)
(* The pseudo-random generator: a deterministic generator whose seed (the  *)
(* clock at construction) is unknown.  Intn(n) is in 0..n-1 and every use  *)
(* advances the state.                                                     *)
(***************************************************************************)
Intn(r, n) == r % n

RndNext(r) == (r + 1) % RndMod

RECURSIVE RndAdvance(_, _)
RndAdvance(r, n) == IF n = 0 THEN r ELSE RndAdvance(RndNext(r), n - 1)

(***************************************************************************)
(* Options: deduplication, shuffle, JSON                                   *)
(***************************************************************************)
\* the loop of deduplicateOptions over options[k..], unique built so far
RECURSIVE DedupFrom(_, _, _)
DedupFrom(options, k, unique) ==
  IF k > Len(options) THEN unique
  ELSE IF options[k] # "" /\ options[k] \notin Range(unique)
    THEN DedupFrom(options, k + 1, Append(unique, options[k]))
    ELSE DedupFrom(options, k + 1, unique)

\* no deduplication: the correct answer, then every option
KeepAllOptions(options, correctAnswer) == <<correctAnswer>> \o options

deduplicateOptions(options, correctAnswer) ==
  DedupFrom(options, 1, IF correctAnswer # "" THEN <<correctAnswer>> ELSE <<>>)

Swap(seq, i, j) == [seq EXCEPT ![i] = seq[j], ![j] = seq[i]]

\* Fisher-Yates from position k (1-based) down to 2: j := Intn(k), swap
RECURSIVE ShuffleFrom(_, _, _)
ShuffleFrom(seq, k, r) ==
  IF k < 2 THEN seq
  ELSE ShuffleFrom(Swap(seq, k, Intn(r, k) + 1), k - 1, RndNext(r))

\* a shuffle that loses the first element
ShuffleLosingOne(options, r) == ShuffleFrom(Tail(options), Len(options) - 1, r)

shuffleOptions(options, r) == ShuffleFrom(options, Len(options), r)

\* the number of Intn calls of one shuffleOptions
ShuffleDraws(options) == IF Len(options) < 2 THEN 0 ELSE Len(options) - 1

\* json.Marshal of a []string: the text as tokens, a string literal is
\* <<"str", s>> and the punctuation <<"[", "">>, <<",", "">>, <<"]", "">>
RECURSIVE MarshalItems(_)
MarshalItems(options) ==
  IF options = <<>> THEN <<>>
  ELSE IF Len(options) = 1 THEN <<<<"str", options[1]>>>>
  ELSE <<<<"str", options[1]>>, <<",", "">>>> \o MarshalItems(Tail(options))

MarshalOptions(options) == <<<<"[", "">>>> \o MarshalItems(options) \o <<<<"]", "">>>>

\* json.Unmarshal into a []string: ok is FALSE when the text is no array of
\* string literals
RECURSIVE ParseItems(_, _)
ParseItems(toks, acc) ==
  IF toks = <<>> THEN [ok |-> FALSE, value |-> <<>>]
  ELSE IF Head(toks)[1] # "str" THEN [ok |-> FALSE, value |-> <<>>]
  ELSE IF Len(toks) = 1 THEN [ok |-> TRUE, value |-> Append(acc, Head(toks)[2])]
  ELSE IF toks[2][1] # "," THEN [ok |-> FALSE, value |-> <<>>]
  ELSE ParseItems(SubSeq(toks, 3, Len(toks)), Append(acc, Head(toks)[2]))

UnmarshalOptions(text) ==
  IF Len(text) < 2 \/ text[1][1] # "[" \/ text[Len(text)][1] # "]"
    THEN [ok |-> FALSE, value |-> <<>>]
  ELSE IF Len(text) = 2 THEN [ok |-> TRUE, value |-> <<>>]
  ELSE ParseItems(SubSeq(text, 2, Len(text) - 1), <<>>)

(***************************************************************************)
(* Questions                                                               *)
(***************************************************************************)
fallbackWords(letterPair) ==
  CASE letterPair = "b-d" -> <<"bola", "dola", "bela", "dela">>
    [] letterPair = "p-q" -> <<"pagi", "qagi", "patu", "qatu">>
    [] letterPair = "m-w" -> <<"maju", "waju", "mata", "wata">>
    [] letterPair = "n-u" -> <<"nasi", "uasi", "nama", "uama">>
    [] letterPair = "m-n" -> <<"makan", "nakan", "main", "nain">>
    [] OTHER -> <<"bola", "dola", "bela", "dela">>

\* entity.GeneratedQuestion, the response format
Question(id, difficulty, letterPair, options, answer) ==
  [ID |-> id,
   Difficulty |-> difficulty,
   QuestionText |-> QuestionTextStatic,
   TargetLetterPair |-> letterPair,
   TargetLetter |-> TargetLetterOf(letterPair),
   Options |-> options,
   Answer |-> answer]

\* createFallbackQuestionWithShuffle; id is what generateQuestionID returned
createFallbackQuestionWithShuffle(difficulty, letterPair, includeAnswer, id, r) ==
  LET words == fallbackWords(letterPair)
  IN  Question(id, difficulty, letterPair, shuffleOptions(words, r),
               IF includeAnswer THEN words[1] ELSE "")

\* what the text-generation call of one generateFromAI gives: a transport
\* error, a text that is no JSON, or a JSON object {correctAnswer, options}
ReplyError == [kind |-> "error", correctAnswer |-> "", options |-> <<>>]

ReplyFour ==
  [kind |-> "json", correctAnswer |-> "kata",
   options |-> <<"kata", "data", "kafa", "kaca">>]

ReplyDuplicate ==
  [kind |-> "json", correctAnswer |-> "kata",
   options |-> <<"kata", "data", "kafa", "kafa">>]

LLMReplies ==
  { ReplyError,
    [kind |-> "badjson", correctAnswer |-> "", options |-> <<>>],
    ReplyFour,
    ReplyDuplicate,
    [kind |-> "json", correctAnswer |-> "kata", options |-> <<"kata", "kata">>],
    [kind |-> "json", correctAnswer |-> "", options |-> <<"kata", "data">>],
    [kind |-> "json", correctAnswer |-> "kata", options |-> <<"kata">>],
    [kind |-> "json", correctAnswer |-> "kafa", options |-> <<"data", "", "data">>],
    [kind |-> "json", correctAnswer |-> "kata",
     options |-> <<"kata", "data", "kafa", "kaca", "kapa">>] }

\* a generateFromAI that accepts every reply
NoGenerateError(reply) == ""

\* the error of generateFromAI, "" when it returns a question
generateFromAIError(reply) ==
  IF reply.kind = "error" THEN "openai generate error"
  ELSE IF reply.kind = "badjson" THEN "AI output is not valid json"
  ELSE IF Len(reply.options) < MinOptions \/ reply.correctAnswer = ""
    THEN "AI output missing required fields"
  ELSE IF Len(deduplicateOptions(reply.options, reply.correctAnswer)) < MinOptions
    THEN "not enough unique options after deduplication"
  ELSE ""

\* the question of generateFromAI when it returns one
generateFromAI(difficulty, letterPair, includeAnswer, reply, id, r) ==
  Question(id, difficulty, letterPair,
           shuffleOptions(deduplicateOptions(reply.options, reply.correctAnswer), r),
           IF includeAnswer THEN reply.correctAnswer ELSE "")

\* the row saveGeneratedToDB creates for question q
GeneratedRow(q, letterPair) ==
  [QuestionID |-> q.ID,
   TemplateID |-> letterPair,
   Difficulty |-> q.Difficulty,
   QuestionText |-> q.QuestionText,
   TargetLetterPair |-> q.TargetLetterPair,
   TargetLetter |-> q.TargetLetter,
   Options |-> MarshalOptions(q.Options),
   CorrectAnswer |-> q.Answer,
   GeneratedBy |-> "ai",
   UsageCount |-> 1]

\* a save that writes nothing
SaveDropped(rows, q, letterPair) == rows

\* saveGeneratedToDB: lookup, then increment the usage or insert
saveGeneratedToDB(rows, q, letterPair) ==
  IF HasGenerated(rows, q.ID)
    THEN IncrementUsageCount(rows, q.ID)
    ELSE CreateGenerated(rows, GeneratedRow(q, letterPair))

(***************************************************************************)
(* Generate                                                                *)
(***************************************************************************)
\* count values a client sends: below the range, the largest number of slots
\* the model runs, above the range
CountInputs == {0, MaxSlots, MaxCount + 1}

DifficultyInputs == {"", "hard"}

PatternInputs == { <<>>, <<" P-Q ", "">>, <<"B-D", "x-y">> }

SessionInputs == {"", "s1"}

\* the zero value of entity.GeneratedQuestion (ID 0 stands for the empty ID)
ZeroQuestion ==
  [ID |-> 0, Difficulty |-> "", QuestionText |-> "", TargetLetterPair |-> "",
   TargetLetter |-> "", Options |-> <<>>, Answer |-> ""]

\* a count that is used as it came
Unclamped(count) == count

ClampCount(count) ==
  IF count <= 0 THEN MinCount
  ELSE IF count > MaxCount THEN MaxCount
  ELSE count

DefaultDifficulty(difficulty) == IF difficulty = "" THEN "easy" ELSE difficulty

\* a Generate that excludes nothing
NoExcludedQuestionIDs(rows, sessionID) == <<>>

\* QuestionID of every answer stored for the session, newest first; no
\* lookup is made for the empty session id
ExcludedQuestionIDs(rows, sessionID) ==
  IF sessionID = "" THEN <<>>
  ELSE LET userAnswers == FindUserAnswersBySessionID(rows, sessionID)
       IN  [i \in 1..Len(userAnswers) |-> userAnswers[i].QuestionID]

NormalizePattern(pattern) == ToLower(TrimSpace(pattern))

\* a validation that accepts every pattern
AnyPatternAllowed(pattern) == TRUE

IsAllowedPattern(pattern) == pattern \in Range(allLetterPairs)

\* the validation loop over patterns[k..]: the first pattern that is not
\* empty and not allowed ends it with an error
RECURSIVE ValidateFrom(_, _, _)
ValidateFrom(patterns, k, validated) ==
  IF k > Len(patterns) THEN [err |-> "", validated |-> validated]
  ELSE LET pattern == NormalizePattern(patterns[k])
       IN  IF pattern = "" THEN ValidateFrom(patterns, k + 1, validated)
           ELSE IF ~IsAllowedPattern(pattern)
             THEN [err |-> "invalid pattern", validated |-> validated]
           ELSE ValidateFrom(patterns, k + 1, Append(validated, pattern))

ValidatePatterns(patterns) == ValidateFrom(patterns, 1, <<>>)

\* letterPairs: the validated patterns, or all pairs when there is none
LetterPairsOf(patterns) ==
  IF Len(ValidatePatterns(patterns).validated) > 0
    THEN ValidatePatterns(patterns).validated
    ELSE allLetterPairs

\* a query without a WHERE clause
AllGenerated(rows, difficulty, excludeIDs) == rows

\* FindRandomGeneratedByDifficulty: WHERE difficulty = ? AND question_id NOT
\* IN excludeIDs
MatchingGenerated(rows, difficulty, excludeIDs) ==
  {row \in rows : row.Difficulty = difficulty /\ row.QuestionID \notin Range(excludeIDs)}

\* ORDER BY RANDOM() LIMIT limit: every sequence of distinct matching rows
\* of the length the limit allows
RandomSelections(rows, limit) ==
  LET n == Min(limit, Cardinality(rows))
  IN  {sel \in [1..n -> rows] : \A i, j \in 1..n : i # j => sel[i] # sel[j]}

\* the conversion loop of generateFromDBCache over dbQuestions[k..]
RECURSIVE CacheLoop(_, _, _, _, _, _)
CacheLoop(dbQuestions, k, includeAnswer, r, results, seenIDs) ==
  IF k > Len(dbQuestions) THEN [results |-> results, rnd |-> r]
  ELSE LET dbQ == dbQuestions[k]
           parsed == UnmarshalOptions(dbQ.Options)
       IN  IF dbQ.QuestionID \in seenIDs \/ ~parsed.ok
             THEN CacheLoop(dbQuestions, k + 1, includeAnswer, r, results, seenIDs)
             ELSE CacheLoop(dbQuestions, k + 1, includeAnswer,
                    RndAdvance(r, ShuffleDraws(parsed.value)),
                    Append(results,
                      [ID |-> dbQ.QuestionID,
                       Difficulty |-> dbQ.Difficulty,
                       QuestionText |-> dbQ.QuestionText,
                       TargetLetterPair |-> dbQ.TargetLetterPair,
                       TargetLetter |-> dbQ.TargetLetter,
                       Options |-> shuffleOptions(parsed.value, r),
                       Answer |-> IF includeAnswer THEN dbQ.CorrectAnswer ELSE ""]),
                    seenIDs \cup {dbQ.QuestionID})

generateFromDBCache(dbQuestions, includeAnswer, r) ==
  CacheLoop(dbQuestions, 1, includeAnswer, r, <<>>, {})

\* the duplicate filter of Generate over results[k..]
RECURSIVE UniqueFrom(_, _, _, _)
UniqueFrom(results, k, seenIDs, uniqueResults) ==
  IF k > Len(results) THEN [seenIDs |-> seenIDs, uniqueResults |-> uniqueResults]
  ELSE IF results[k].ID \notin seenIDs
    THEN UniqueFrom(results, k + 1, seenIDs \cup {results[k].ID},
                    Append(uniqueResults, results[k]))
    ELSE UniqueFrom(results, k + 1, seenIDs, uniqueResults)

\* a filter that keeps every result
KeepEveryResult(results, excludedQuestionIDs) ==
  [seenIDs |-> Range(excludedQuestionIDs) \cup {results[k].ID : k \in 1..Len(results)},
   uniqueResults |-> results]

DeduplicateResults(results, excludedQuestionIDs) ==
  UniqueFrom(results, 1, Range(excludedQuestionIDs), <<>>)

\* the answer is removed from the response unless the caller asked for it
StripAnswers(results, includeAnswer) ==
  IF includeAnswer THEN results
  ELSE [i \in 1..Len(results) |-> [results[i] EXCEPT !.Answer = ""]]

\* slots that pass the caller's includeAnswer on
CallerIncludeAnswer(includeAnswer) == includeAnswer

\* includeAnswer as the slots pass it on to generateFromAI and the fallback:
\* the literal true
SlotIncludeAnswer(includeAnswer) == TRUE

SaveTask(q, letterPair) == [kind |-> "save", q |-> q, letterPair |-> letterPair, id |-> q.ID]

IncrementTask(questionID) ==
  [kind |-> "increment", q |-> ZeroQuestion, letterPair |-> "", id |-> questionID]

RECURSIVE IncrementTasks(_)
IncrementTasks(results) ==
  IF results = <<>> THEN EmptyBag
  ELSE SetToBag({IncrementTask(Head(results).ID)}) (+) IncrementTasks(Tail(results))

IdleGen ==
  [pc |-> "idle", difficulty |-> "", count |-> 0, includeAnswer |-> FALSE,
   useAI |-> FALSE, sessionID |-> "", patterns |-> <<>>, letterPairs |-> <<>>,
   excludedQuestionIDs |-> <<>>, pending |-> {}, results |-> <<>>,
   received |-> 0, seenIDs |-> {}, uniqueResults |-> <<>>, shortage |-> 0,
   i |-> 0, out |-> <<>>, err |-> "", llmCalls |-> 0, inRnd |-> {}, raced |-> {}]

\* the locals of a Generate call after validation
StartedGen(difficulty, count, includeAnswer, patterns, useAI, sessionID) ==
  [IdleGen EXCEPT
     !.difficulty = DefaultDifficulty(difficulty),
     !.count = ClampCount(count),
     !.includeAnswer = includeAnswer,
     !.useAI = useAI,
     !.sessionID = sessionID,
     !.patterns = patterns,
     !.letterPairs = LetterPairsOf(patterns),
     !.excludedQuestionIDs = ExcludedQuestionIDs(answers, sessionID)]

\* Generate up to the start of the slots; the validation error and the
\* cache path (use_ai=false) end the call here
GenerateCall(difficulty, count, includeAnswer, patterns, useAI, sessionID) ==
  /\ gen.pc = "idle"
  /\ LET g == StartedGen(difficulty, count, includeAnswer, patterns, useAI, sessionID)
     IN  IF ValidatePatterns(patterns).err # ""
           THEN /\ gen' = [g EXCEPT !.pc = "done", !.err = ValidatePatterns(patterns).err,
                                     !.letterPairs = <<>>]
                /\ UNCHANGED <<rnd, tasks>>
         ELSE IF ~useAI
           THEN \E dbQuestions \in RandomSelections(
                     MatchingGenerated(generated, g.difficulty, g.excludedQuestionIDs),
                     g.count) :
                  IF Len(dbQuestions) = 0
                    THEN /\ gen' = [g EXCEPT !.pc = "done",
                                              !.err = "no cached questions found"]
                         /\ UNCHANGED <<rnd, tasks>>
                    ELSE LET c == generateFromDBCache(dbQuestions, includeAnswer, rnd)
                         IN  /\ gen' = [g EXCEPT !.pc = "done", !.out = c.results]
                             /\ rnd' = c.rnd
                             /\ tasks' = tasks (+) IncrementTasks(c.results)
         ELSE /\ gen' = [g EXCEPT !.pc = "slots",
                                  !.pending = 1..g.count,
                                  !.results = [k \in 1..g.count |-> ZeroQuestion]]
              /\ UNCHANGED <<rnd, tasks>>
  /\ UNCHANGED <<disableAI, resultChan, aiTruth>>
  /\ UNCHANGED storeVars
  /\ UNCHANGED subVars
  /\ UNCHANGED saved
  /\ UNCHANGED reportVars

\* a Generate request that starts no more slots than the model runs in
\* every order
GenerateStart(difficulty, count, includeAnswer, patterns, useAI, sessionID) ==
  /\ useAI => ClampCount(count) <= MaxSlots
  /\ GenerateCall(difficulty, count, includeAnswer, patterns, useAI, sessionID)

\* one generation, as a slot and as a replacement run it: the letter pair is
\* drawn, then the fallback (AI disabled, or generateFromAI failed) or the
\* question of generateFromAI.  ai tells whether generateFromAI gave it.
Generation(difficulty, letterPairs, includeAnswer, disabled, reply, id, r) ==
  LET letterPair == letterPairs[Intn(r, Len(letterPairs)) + 1]
      r1 == RndNext(r)
      failed == disabled \/ generateFromAIError(reply) # ""
      q == IF failed
             THEN createFallbackQuestionWithShuffle(difficulty, letterPair,
                    SlotIncludeAnswer(includeAnswer), id, r1)
             ELSE generateFromAI(difficulty, letterPair,
                    SlotIncludeAnswer(includeAnswer), reply, id, r1)
  IN  [question |-> q,
       letterPair |-> letterPair,
       ai |-> ~failed,
       llmCalls |-> IF disabled THEN 0 ELSE 1,
       rnd |-> RndAdvance(r1, ShuffleDraws(q.Options))]

\* the background save a successful AI generation starts
SaveEveryQuestion(g) == SetToBag({SaveTask(g.question, g.letterPair)})

SpawnedBy(g) ==
  IF g.ai THEN SetToBag({SaveTask(g.question, g.letterPair)}) ELSE EmptyBag

TruthOf(g, reply) ==
  IF g.ai THEN {<<g.question.ID, reply.correctAnswer>>} ELSE {}

\* the end of Generate: the answers are stripped and the list is returned
Finished(g, uniqueResults) ==
  [g EXCEPT !.pc = "done", !.uniqueResults = uniqueResults,
            !.out = StripAnswers(uniqueResults, g.includeAnswer)]

\* resultChan := make(chan result, count): a send blocks while the channel
\* holds as many results as its capacity
ChanCapacity(count) == count

\* the goroutine of slot index: generate, start the save, send the result
SlotRun(index, reply, id) ==
  /\ gen.pc = "slots"
  /\ index \in gen.pending
  /\ Len(resultChan) < ChanCapacity(gen.count)
  /\ LET g == Generation(gen.difficulty, gen.letterPairs, gen.includeAnswer,
                         disableAI, reply, id, rnd)
     IN  /\ rnd' = g.rnd
         /\ tasks' = tasks (+) SpawnedBy(g)
         /\ aiTruth' = aiTruth \cup TruthOf(g, reply)
         /\ resultChan' = Append(resultChan, [question |-> g.question, index |-> index])
         /\ gen' = [gen EXCEPT !.pending = gen.pending \ {index},
                               !.llmCalls = gen.llmCalls + g.llmCalls]
  /\ UNCHANGED disableAI
  /\ UNCHANGED storeVars
  /\ UNCHANGED subVars
  /\ UNCHANGED saved
  /\ UNCHANGED reportVars

\* The goroutine of slot index in two steps, for the accesses to u.rnd: a
\* *rand.Rand made by rand.New, which is not safe for concurrent use, and
\* which the goroutines of the slots call without a lock.
\* RndEnter: the goroutine calls u.rnd.Intn to pick its letter pair; inRnd
\* holds the slots that are inside an operation on u.rnd.  Slots that are
\* inside it together have raced.
RndEnter(index) ==
  /\ gen.pc = "slots"
  /\ index \in gen.pending \ gen.inRnd
  /\ gen' = [gen EXCEPT !.inRnd = gen.inRnd \cup {index},
                        !.raced = IF gen.inRnd = {} THEN gen.raced
                                  ELSE gen.raced \cup gen.inRnd \cup {index}]
  /\ UNCHANGED <<disableAI, rnd, resultChan, tasks, aiTruth>>
  /\ UNCHANGED storeVars
  /\ UNCHANGED subVars
  /\ UNCHANGED saved
  /\ UNCHANGED reportVars

\* RndLeave: the operation returns and the goroutine runs to its end as in
\* SlotRun.  A slot that has not raced draws from the state of u.rnd.  The
\* unsynchronised accesses of a slot that has raced are a data race: it
\* draws from any state r, leaves any state behind, or the process panics
\* inside math/rand.
RndLeave(index, reply, id, r, crash) ==
  /\ gen.pc = "slots"
  /\ index \in gen.inRnd
  /\ index \in gen.raced \/ (r = rnd /\ ~crash)
  /\ crash \/ Len(resultChan) < ChanCapacity(gen.count)
  /\ IF crash
       THEN /\ gen' = [gen EXCEPT !.pc = "panic", !.inRnd = {}, !.pending = {},
                                  !.err = "panic in math/rand"]
            /\ UNCHANGED <<rnd, tasks, aiTruth, resultChan>>
       ELSE LET g == Generation(gen.difficulty, gen.letterPairs, gen.includeAnswer,
                                disableAI, reply, id, r)
            IN  /\ rnd' = g.rnd
                /\ tasks' = tasks (+) SpawnedBy(g)
                /\ aiTruth' = aiTruth \cup TruthOf(g, reply)
                /\ resultChan' = Append(resultChan,
                                        [question |-> g.question, index |-> index])
                /\ gen' = [gen EXCEPT !.pending = gen.pending \ {index},
                                      !.inRnd = gen.inRnd \ {index},
                                      !.llmCalls = gen.llmCalls + g.llmCalls]
  /\ UNCHANGED disableAI
  /\ UNCHANGED storeVars
  /\ UNCHANGED subVars
  /\ UNCHANGED saved
  /\ UNCHANGED reportVars

\* a collection that stores a result in the first free position, that is in
\* the order of arrival
PlaceInArrivalOrder(results, r) ==
  LET k == CHOOSE k \in 1..Len(results) :
             /\ results[k] = ZeroQuestion
             /\ \A j \in 1..(k - 1) : results[j] # ZeroQuestion
  IN  [results EXCEPT ![k] = r.question]

\* results[r.index] = r.question
PlaceResult(results, r) == [results EXCEPT ![r.index] = r.question]

\* the caller receives one result; after the last one it filters the
\* duplicates and either returns or enters the replacement loop
Collect ==
  /\ gen.pc = "slots"
  /\ resultChan # <<>>
  /\ resultChan' = Tail(resultChan)
  /\ LET r == Head(resultChan)
         results == PlaceResult(gen.results, r)
         received == gen.received + 1
         d == DeduplicateResults(results, gen.excludedQuestionIDs)
         g == [gen EXCEPT !.results = results, !.received = received]
     IN  IF received < gen.count
           THEN gen' = g
         ELSE IF Len(d.uniqueResults) < gen.count
           THEN gen' = [g EXCEPT !.pc = "replace",
                                 !.seenIDs = d.seenIDs,
                                 !.uniqueResults = d.uniqueResults,
                                 !.shortage = gen.count - Len(d.uniqueResults),
                                 !.i = 0]
         ELSE gen' = Finished([g EXCEPT !.seenIDs = d.seenIDs], d.uniqueResults)
  /\ UNCHANGED <<disableAI, rnd, tasks, aiTruth>>
  /\ UNCHANGED storeVars
  /\ UNCHANGED subVars
  /\ UNCHANGED saved
  /\ UNCHANGED reportVars

\* a replacement loop bounded by the shortage alone
ReplaceWhileShort(i, shortage) == i < shortage

\* the test of the replacement loop: i < shortage && i < 5
ReplaceGoesOn(i, shortage) == i < shortage /\ i < MaxReplacements

\* one iteration of the replacement loop
Replace(reply, id) ==
  /\ gen.pc = "replace"
  /\ LET g == Generation(gen.difficulty, gen.letterPairs, gen.includeAnswer,
                         disableAI, reply, id, rnd)
         isNew == g.question.ID \notin gen.seenIDs
         uniqueResults == IF isNew THEN Append(gen.uniqueResults, g.question)
                          ELSE gen.uniqueResults
         next == [gen EXCEPT !.seenIDs = gen.seenIDs \cup {g.question.ID},
                             !.uniqueResults = uniqueResults,
                             !.i = gen.i + 1,
                             !.llmCalls = gen.llmCalls + g.llmCalls]
     IN  /\ rnd' = g.rnd
         /\ tasks' = tasks (+) SpawnedBy(g)
         /\ aiTruth' = aiTruth \cup TruthOf(g, reply)
         /\ IF \/ Len(uniqueResults) >= gen.count
               \/ ~ReplaceGoesOn(next.i, gen.shortage)
              THEN gen' = Finished(next, uniqueResults)
              ELSE gen' = next
  /\ UNCHANGED <<disableAI, resultChan>>
  /\ UNCHANGED storeVars
  /\ UNCHANGED subVars
  /\ UNCHANGED saved
  /\ UNCHANGED reportVars

\* a background goroutine runs: the save of a generated question, or the
\* usage increment of a cache hit.  Neither takes the context of the
\* request.  When the store refuses the write (failed) the goroutine logs
\* the error or drops it and ends; the task stays in the bag as ended.
RunTaskWith(failed) ==
  /\ \E t \in BagToSet(tasks) :
       /\ t.kind \in {"save", "increment"}
       /\ IF failed
            THEN /\ tasks' = (tasks (-) SetToBag({t}))
                               (+) SetToBag({[t EXCEPT !.kind = "failed"]})
                 /\ UNCHANGED <<generated, saved>>
            ELSE /\ tasks' = tasks (-) SetToBag({t})
                 /\ IF t.kind = "save"
                      THEN /\ generated' = saveGeneratedToDB(generated, t.q, t.letterPair)
                           /\ saved' = IF HasGenerated(generated, t.q.ID)
                                          THEN saved
                                          ELSE saved \cup {t.q}
                      ELSE /\ generated' = IncrementUsageCount(generated, t.id)
                           /\ UNCHANGED saved
  /\ UNCHANGED <<answers, disableAI, rnd, gen, resultChan, aiTruth>>
  /\ UNCHANGED subVars
  /\ UNCHANGED reportVars

RunTask == RunTaskWith(FALSE)

\* Generate has returned; the engine serves the next Generate request
GenerateReturn ==
  /\ gen.pc = "done"
  /\ BagCardinality(tasks) <= MaxPending
  /\ \A row \in generated : row.UsageCount < MaxUsageCount
  /\ gen' = IdleGen
  /\ UNCHANGED <<disableAI, rnd, resultChan, tasks, aiTruth>>
  /\ UNCHANGED storeVars
  /\ UNCHANGED subVars
  /\ UNCHANGED saved
  /\ UNCHANGED reportVars

(***************************************************************************)
(* Session report                                                          *)
(***************************************************************************)
\* FindAnalysisCacheBySessionID: the row, or an error when there is none
HasAnalysisCache(rows, sessionID) == \E row \in rows : row.SessionID = sessionID

FindAnalysisCacheBySessionID(rows, sessionID) ==
  CHOOSE row \in rows : row.SessionID = sessionID

\* CreateOrUpdateAnalysisCache:
\*   db.Where("session_id = ?", ...).Assign(cache).FirstOrCreate(cache)
\* Without a row of the session the cache is inserted.  With one, gorm reads
\* the found row into cache, the struct Assign was given, and then updates
\* the row with the fields of the assigned struct that are not the zero
\* value of their type (0, ""): the columns of the update are those of the
\* new report that are not zero, or, the struct being overwritten by the
\* read, the values just read.  The operator gives the tables the call may
\* leave.  The session id, the accuracy text and the two JSON texts are
\* never empty.
CreateOrUpdateAnalysisCache(rows, cache) ==
  IF ~HasAnalysisCache(rows, cache.SessionID) THEN {rows \cup {cache}}
  ELSE LET found == FindAnalysisCacheBySessionID(rows, cache.SessionID)
           updated ==
             [SessionID |-> cache.SessionID,
              TotalQuestions |-> IF cache.TotalQuestions = 0
                                   THEN found.TotalQuestions
                                   ELSE cache.TotalQuestions,
              CorrectAnswers |-> IF cache.CorrectAnswers = 0
                                   THEN found.CorrectAnswers
                                   ELSE cache.CorrectAnswers,
              WrongAnswers |-> IF cache.WrongAnswers = 0
                                 THEN found.WrongAnswers
                                 ELSE cache.WrongAnswers,
              AccuracyRate |-> cache.AccuracyRate,
              OverallValue |-> IF cache.OverallValue = ""
                                 THEN found.OverallValue
                                 ELSE cache.OverallValue,
              AIAnalysis |-> IF cache.AIAnalysis = ""
                               THEN found.AIAnalysis
                               ELSE cache.AIAnalysis,
              Recommendations |-> IF cache.Recommendations = ""
                                    THEN found.Recommendations
                                    ELSE cache.Recommendations,
              ErrorPatterns |-> cache.ErrorPatterns,
              DifficultyStats |-> cache.DifficultyStats]
       IN  {(rows \ {found}) \cup {updated}, rows}

\* CreateChatMessage: INSERT
CreateChatMessage(rows, message) == Append(rows, message)

\* a read that gives the newest row first
NewestFirst(rows, sessionID, limit) ==
  IF rows = <<>> THEN <<>>
  ELSE LET found == SelectSeq(rows, LAMBDA row : row.SessionID = sessionID)
           taken == IF limit > 0 /\ limit < Len(found) THEN limit ELSE Len(found)
       IN  [i \in 1..taken |-> found[Len(found) + 1 - i]]

\* FindChatMessagesBySessionID: ORDER BY created_at ASC, oldest row first,
\* at most limit rows when limit > 0
RECURSIVE MessagesOfSession(_, _)
MessagesOfSession(rows, sessionID) ==
  IF rows = <<>> THEN <<>>
  ELSE IF Head(rows).SessionID = sessionID
    THEN <<Head(rows)>> \o MessagesOfSession(Tail(rows), sessionID)
    ELSE MessagesOfSession(Tail(rows), sessionID)

FindChatMessagesBySessionID(rows, sessionID, limit) ==
  LET found == MessagesOfSession(rows, sessionID)
  IN  IF limit > 0 THEN SubSeq(found, 1, Min(limit, Len(found))) ELSE found

\* GetSessionAnswers: one log entry per stored answer, the flag and the
\* correct answer copied from the row, the letter pair from the cache
GetSessionAnswers(rows, cacheRows, sessionID) ==
  LET found == FindUserAnswersBySessionID(rows, sessionID)
  IN  [i \in 1..Len(found) |->
         [QuestionID |-> found[i].QuestionID,
          QuestionText |-> found[i].QuestionText,
          UserAnswer |-> found[i].UserAnswer,
          CorrectAnswer |-> found[i].CorrectAnswer,
          IsCorrect |-> found[i].IsCorrect,
          Difficulty |-> found[i].Difficulty,
          TargetLetterPair |->
            IF HasGenerated(cacheRows, found[i].QuestionID)
              THEN FindGeneratedByQuestionID(cacheRows, found[i].QuestionID).TargetLetterPair
              ELSE ""]]

\* fmt.Sprintf("%.1f%%", float64(n)/float64(d)*100): the text, given by its
\* integer part and its one decimal digit; the formatting rounds to the
\* nearest tenth, a tie to the even digit
Percent1f(n, d) ==
  LET q == (n * 1000) \div d
      twice == 2 * ((n * 1000) % d)
      tenths == IF twice > d \/ (twice = d /\ q % 2 = 1) THEN q + 1 ELSE q
  IN  <<tenths \div 10, tenths % 10>>

\* the loop of GenerateSessionReport over the answers: the counters
countCorrect(found) == Cardinality({i \in 1..Len(found) : found[i].IsCorrect})

CountWrong(found) == Cardinality({i \in 1..Len(found) : ~found[i].IsCorrect})

\* difficultyStats, a map, as the set of its <<key, value>> entries
DifficultyStatsOf(found) ==
  {<<d, Cardinality({i \in 1..Len(found) : found[i].Difficulty = d})>> :
     d \in {found[i].Difficulty : i \in 1..Len(found)}}

\* the letter pair of the cached question of an answer, "" without one
PairOf(cacheRows, answer) ==
  IF HasGenerated(cacheRows, answer.QuestionID)
    THEN FindGeneratedByQuestionID(cacheRows, answer.QuestionID).TargetLetterPair
    ELSE ""

\* errorPatterns: one entry per letter pair met; the slice follows the
\* iteration order of a map, it is kept as the set of its entries
ErrorPatternsOf(found, cacheRows) ==
  LET pairs == {PairOf(cacheRows, found[i]) : i \in 1..Len(found)} \ {""}
      total(pair) == Cardinality({i \in 1..Len(found) : PairOf(cacheRows, found[i]) = pair})
      errors(pair) == Cardinality({i \in 1..Len(found) :
                                    /\ PairOf(cacheRows, found[i]) = pair
                                    /\ ~found[i].IsCorrect})
  IN  {[LetterPair |-> pair, ErrorCount |-> errors(pair), TotalCount |-> total(pair),
        ErrorRate |-> Percent1f(errors(pair), total(pair))] : pair \in pairs}

\* the zero value of entity.SessionReport
NoReport ==
  [SessionID |-> "", TotalQuestions |-> 0, CorrectAnswers |-> 0, WrongAnswers |-> 0,
   AccuracyRate |-> <<0, 0>>, OverallValue |-> "", ErrorPatterns |-> {},
   DifficultyStats |-> {}, AIAnalysys |-> "", Recommendations |-> ""]

\* an accuracy rate computed the other way round
AccuracyOfWrong(found) == Percent1f(CountWrong(found), Len(found))

AccuracyRateOf(found) == Percent1f(countCorrect(found), Len(found))

\* the report of GenerateSessionReport before the analysis is made
BasicReport(sessionID, found, cacheRows) ==
  [SessionID |-> sessionID,
   TotalQuestions |-> Len(found),
   CorrectAnswers |-> countCorrect(found),
   WrongAnswers |-> CountWrong(found),
   AccuracyRate |-> AccuracyRateOf(found),
   OverallValue |-> "",
   ErrorPatterns |-> ErrorPatternsOf(found, cacheRows),
   DifficultyStats |-> DifficultyStatsOf(found),
   AIAnalysys |-> "",
   Recommendations |-> ""]

\* what generateAIAnalysis returns: analysis, recommendations, overall value
Analysis(analysis, recommendations, overallValue) ==
  [analysis |-> analysis, recommendations |-> recommendations,
   overallValue |-> overallValue]

\* without a client
NoClientAnalysis ==
  Analysis("AI analysis not available", "Practice more to improve", "good")

\* after the last attempt failed with a transport error
TransportFallback ==
  Analysis("Sesi latihan telah selesai. Terus berlatih untuk meningkatkan kemampuan membaca.",
           "Fokus pada huruf-huruf yang masih sering tertukar.",
           "baik")

\* after the last attempt gave a text that does not parse
ParseFallback ==
  Analysis("Sesi latihan telah selesai. Anak menunjukkan kemajuan yang baik.",
           "Terus berlatih secara konsisten untuk hasil yang lebih baik.",
           "baik")

\* the labels the prompt offers to the LLM for overall_value
OverallValues == {"excellent", "sangat baik", "baik", "cukup", "perlu peningkatan"}

maxRetries == 3

\* what one GenerateText call of generateAIAnalysis gives: a transport
\* error, a text that is no JSON, or a JSON object whose absent fields are
\* left empty by json.Unmarshal
AnalysisError == [kind |-> "error", analysis |-> "", recommendations |-> "", overall_value |-> ""]

AnalysisBadJSON == [kind |-> "badjson", analysis |-> "", recommendations |-> "", overall_value |-> ""]

AnalysisBaik ==
  [kind |-> "json", analysis |-> "Anak sering tertukar b dan d.",
   recommendations |-> "Fokus latihan pada huruf b-d.", overall_value |-> "baik"]

AnalysisCukup ==
  [kind |-> "json", analysis |-> "Anak perlu latihan terarah.",
   recommendations |-> "Gunakan metode visual.", overall_value |-> "cukup"]

AnalysisEmptyObject ==
  [kind |-> "json", analysis |-> "", recommendations |-> "", overall_value |-> ""]

AnalysisReplies ==
  {AnalysisError, AnalysisBadJSON, AnalysisBaik, AnalysisCukup, AnalysisEmptyObject}

\* the row saveAnalysisCache builds from the report; the two JSON texts are
\* named by the value that was marshalled
AnalysisCacheRow(report) ==
  [SessionID |-> report.SessionID,
   TotalQuestions |-> report.TotalQuestions,
   CorrectAnswers |-> report.CorrectAnswers,
   WrongAnswers |-> report.WrongAnswers,
   AccuracyRate |-> report.AccuracyRate,
   OverallValue |-> report.OverallValue,
   AIAnalysis |-> report.AIAnalysys,
   Recommendations |-> report.Recommendations,
   ErrorPatterns |-> <<"json", report.ErrorPatterns>>,
   DifficultyStats |-> <<"json", report.DifficultyStats>>]

saveAnalysisCache(rows, report) ==
  CreateOrUpdateAnalysisCache(rows, AnalysisCacheRow(report))

\* the feedback text: the format of saveFeedbackToChat with its two arguments
FeedbackMessage(analysis, recommendations) == <<"feedback", analysis, recommendations>>

\* a text of the client or of the chat LLM
TextMessage(text) == <<"text", text, "">>

\* a guard that never finds a message
NoAssistantFirst(rows, sessionID) == FALSE

\* the guard of saveFeedbackToChat: the oldest message of the session is an
\* assistant message
AssistantFirst(rows, sessionID) ==
  LET existingMessages == FindChatMessagesBySessionID(rows, sessionID, 1)
  IN  Len(existingMessages) > 0 /\ existingMessages[1].Role = "assistant"

saveFeedbackToChat(rows, sessionID, analysis, recommendations) ==
  IF AssistantFirst(rows, sessionID) THEN rows
  ELSE CreateChatMessage(rows,
         [SessionID |-> sessionID, Role |-> "assistant",
          Message |-> FeedbackMessage(analysis, recommendations)])

IdleRep ==
  [pc |-> "idle", sessionID |-> "", caller |-> "", answers |-> <<>>,
   attempt |-> 0, llmCalls |-> 0, failures |-> 0, report |-> NoReport, err |-> "",
   cancelled |-> FALSE, lateCalls |-> 0, lateWaits |-> 0]

IdleChat ==
  [pc |-> "idle", sessionID |-> "", userMessage |-> "", messages |-> <<>>,
   attempt |-> 0, llmCalls |-> 0, response |-> "", err |-> "",
   cancelled |-> FALSE, lateCalls |-> 0, lateWaits |-> 0]

\* number of stored messages ChatWithBot asks the repository for
contextLimit == 10

\* the system prompt: the format of ChatWithBot with its seven arguments
SystemContext(cachedAnalysis) ==
  <<"system", cachedAnalysis.TotalQuestions, cachedAnalysis.CorrectAnswers,
    cachedAnalysis.WrongAnswers, cachedAnalysis.AccuracyRate,
    cachedAnalysis.OverallValue, cachedAnalysis.AIAnalysis,
    cachedAnalysis.Recommendations>>

\* the messages ChatWithBot sends: the system prompt, the stored messages
\* it read, the message of the user
ChatContext(cacheRows, messageRows, sessionID, userMessage) ==
  LET chatHistory == FindChatMessagesBySessionID(messageRows, sessionID, contextLimit)
  IN  <<[Role |-> "system",
         Content |-> SystemContext(FindAnalysisCacheBySessionID(cacheRows, sessionID))]>>
      \o [i \in 1..Len(chatHistory) |->
            [Role |-> IF chatHistory[i].Role = "user" THEN "user" ELSE "assistant",
             Content |-> chatHistory[i].Message]]
      \o <<[Role |-> "user", Content |-> TextMessage(userMessage)]>>

\* ChatWithBot from the cache row it found to its first call of the LLM
ChatReady(ch, cacheRows, messageRows) ==
  [ch EXCEPT !.pc = "reply", !.attempt = 1,
             !.messages = ChatContext(cacheRows, messageRows, ch.sessionID,
                                      ch.userMessage)]

\* a caller that goes on to the LLM whatever the report left
ChatAfterReportUnchecked(ch, r, cacheRows, messageRows) ==
  IF r.caller # "chat" THEN ch ELSE [ch EXCEPT !.pc = "reply", !.attempt = 1]

\* ChatWithBot after the report it asked for has returned: the error of the
\* report ends it, so does a cache that still has no row of the session
ChatAfterReport(ch, r, cacheRows, messageRows) ==
  IF r.caller # "chat" THEN ch
  ELSE IF r.err # ""
    THEN [ch EXCEPT !.pc = "done", !.err = "failed to generate analysis for chatbot"]
  ELSE IF ~HasAnalysisCache(cacheRows, r.sessionID)
    THEN [ch EXCEPT !.pc = "done", !.err = "failed to fetch analysis cache"]
  ELSE ChatReady(ch, cacheRows, messageRows)

\* the end of GenerateSessionReport once the analysis a is there: the report
\* is built, the cache row and the feedback message are saved, the report
\* is returned.  A failed save of the cache row (saveErr) is logged and
\* leaves the table as it was.
ReportFinishWith(r, a, ch, saveErr) ==
  LET report == [r.report EXCEPT !.OverallValue = a.overallValue,
                                 !.AIAnalysys = a.analysis,
                                 !.Recommendations = a.recommendations]
      done == [r EXCEPT !.pc = "done", !.report = report]
      messageRows == saveFeedbackToChat(chatMessages, r.sessionID,
                                        a.analysis, a.recommendations)
  IN  /\ \E cacheRows \in IF saveErr THEN {analysisCache}
                                      ELSE saveAnalysisCache(analysisCache, report) :
           /\ analysisCache' = cacheRows
           /\ chat' = ChatAfterReport(ch, done, cacheRows, messageRows)
      /\ chatMessages' = messageRows
      /\ rep' = done

ReportFinish(r, a, ch) == ReportFinishWith(r, a, ch, FALSE)

\* a call that returns an empty report for a session without answers
NoAnswersIgnored(r) == [r EXCEPT !.pc = "done"]

\* the call ends with the error of a session without answers
NoAnswersError(r) == [r EXCEPT !.pc = "done", !.err = "no answers found for session"]

\* GenerateSessionReport up to the first call of the LLM; a session without
\* answers ends it with an error, a missing client with the report
ReportCall(sessionID, caller, ch) ==
  LET found == FindUserAnswersBySessionID(answers, sessionID)
      r == [IdleRep EXCEPT !.sessionID = sessionID, !.caller = caller,
                           !.answers = found]
  IN  IF Len(found) = 0
        THEN LET failed == NoAnswersError(r)
             IN  /\ rep' = failed
                 /\ chat' = ChatAfterReport(ch, failed, analysisCache, chatMessages)
                 /\ UNCHANGED <<analysisCache, chatMessages>>
      ELSE LET started == [r EXCEPT !.report = BasicReport(sessionID, found, generated)]
           IN  IF ~hasGemini
                 THEN ReportFinish(started, NoClientAnalysis, ch)
                 ELSE /\ rep' = [started EXCEPT !.pc = "analysis", !.attempt = 1]
                      /\ chat' = ch
                      /\ UNCHANGED <<analysisCache, chatMessages>>

\* a report request: GenerateSessionReport is called by the handler
ReportStart(sessionID) ==
  /\ rep.pc \in {"idle", "done"}
  /\ chat.pc \in {"idle", "done"}
  /\ ReportCall(sessionID, "http", chat)
  /\ UNCHANGED hasGemini
  /\ UNCHANGED storeVars
  /\ UNCHANGED genVars
  /\ UNCHANGED subVars
  /\ UNCHANGED saved

\* The context of the request: the retry loops pass ctx to the call of the
\* LLM and read it nowhere else.  A call made with a cancelled context
\* returns the error of the context; the time.Sleep between two attempts
\* does not look at it.  lateCalls and lateWaits count the calls started
\* and the waits made after the cancellation.
Late(cancelled, n) == IF cancelled THEN n + 1 ELSE n

\* the caller cancels the context of the request that is in a retry loop
CancelRequest ==
  /\ rep.pc = "analysis" \/ chat.pc = "reply"
  /\ ~rep.cancelled /\ ~chat.cancelled
  /\ rep' = IF rep.pc = "analysis" THEN [rep EXCEPT !.cancelled = TRUE] ELSE rep
  /\ chat' = IF chat.pc \in {"report", "reply"}
               THEN [chat EXCEPT !.cancelled = TRUE] ELSE chat
  /\ UNCHANGED <<hasGemini, analysisCache, chatMessages>>
  /\ UNCHANGED storeVars
  /\ UNCHANGED genVars
  /\ UNCHANGED subVars
  /\ UNCHANGED saved

\* a retry loop that gives up after the first attempt
GiveUpAtOnce(attempt) == FALSE

\* the test of the retry loop: another attempt follows a failed one
MayRetry(attempt) == attempt < maxRetries

\* one attempt of generateAIAnalysis: GenerateText, then the parse.  A
\* failed attempt is followed by the next one, the last failed attempt by
\* the fallback; the first text that parses ends the loop.
ReportAttemptWith(reply, saveErr) ==
  /\ rep.pc = "analysis"
  /\ rep.cancelled => reply.kind = "error"
  /\ LET r == [rep EXCEPT !.llmCalls = rep.llmCalls + 1,
                           !.failures = IF reply.kind # "json"
                                          THEN rep.failures + 1
                                          ELSE rep.failures,
                           !.lateCalls = Late(rep.cancelled, rep.lateCalls)]
     IN  IF reply.kind # "json" /\ MayRetry(rep.attempt)
           THEN /\ rep' = [r EXCEPT !.attempt = rep.attempt + 1,
                                    !.lateWaits = Late(rep.cancelled, rep.lateWaits)]
                /\ UNCHANGED <<analysisCache, chatMessages, chat>>
         ELSE IF reply.kind = "error"
           THEN ReportFinishWith(r, TransportFallback, chat, saveErr)
         ELSE IF reply.kind = "badjson"
           THEN ReportFinishWith(r, ParseFallback, chat, saveErr)
         ELSE ReportFinishWith(r, Analysis(reply.analysis, reply.recommendations,
                                           reply.overall_value), chat, saveErr)
  /\ UNCHANGED hasGemini
  /\ UNCHANGED storeVars
  /\ UNCHANGED genVars
  /\ UNCHANGED subVars
  /\ UNCHANGED saved

ReportAttempt(reply) == ReportAttemptWith(reply, FALSE)

(***************************************************************************)
(* Chat                                                                    *)
(***************************************************************************)
\* rows the chat_messages table holds when a further chat request is
\* modelled; the first request of a behaviour is modelled over any table
MaxChatMessages == 3

chatMaxRetries == 3

\* a chat request: ChatWithBot up to its first call of the LLM; without a
\* cache row of the session it calls GenerateSessionReport first
ChatStart(sessionID, userMessage) ==
  /\ rep.pc \in {"idle", "done"}
  /\ chat.pc \in {"idle", "done"}
  /\ Len(chatMessages) < MaxChatMessages \/ chat.pc = "idle"
  /\ LET ch == [IdleChat EXCEPT !.sessionID = sessionID, !.userMessage = userMessage]
     IN  IF HasAnalysisCache(analysisCache, sessionID)
           THEN /\ chat' = ChatReady(ch, analysisCache, chatMessages)
                /\ UNCHANGED <<analysisCache, chatMessages, rep>>
           ELSE ReportCall(sessionID, "chat", [ch EXCEPT !.pc = "report"])
  /\ UNCHANGED hasGemini
  /\ UNCHANGED storeVars
  /\ UNCHANGED genVars
  /\ UNCHANGED subVars
  /\ UNCHANGED saved

\* what one GenerateChatResponse call gives: an error or a text
ChatReplies == {[kind |-> "error", text |-> ""], [kind |-> "text", text |-> "Semangat!"]}

\* a retry loop that never gives up
ChatRetryForever(attempt) == TRUE

\* the test of the retry loop of ChatWithBot
ChatMayRetry(attempt) == attempt < chatMaxRetries

\* an INSERT of a chat message that is lost with its error
InsertLost(rows, message, insertErr) == rows

\* CreateChatMessage with its outcome: a failed INSERT adds no row, and
\* ChatWithBot ignores the error
SaveChatMessage(rows, message, insertErr) ==
  IF insertErr THEN rows ELSE CreateChatMessage(rows, message)

\* one attempt of ChatWithBot: GenerateChatResponse; the text is saved
\* after the message of the user and returned, whether the two INSERTs
\* succeed (userErr, botErr) or not.  Without a client the call
\* dereferences the nil client.
ChatAttemptWith(reply, userErr, botErr) ==
  /\ chat.pc = "reply"
  /\ chat.cancelled => reply.kind = "error"
  /\ LET ch == [chat EXCEPT !.llmCalls = chat.llmCalls + 1,
                            !.lateCalls = Late(chat.cancelled, chat.lateCalls)]
     IN  IF ~hasGemini
           THEN /\ chat' = [chat EXCEPT !.pc = "done", !.err = "nil pointer dereference"]
                /\ UNCHANGED chatMessages
         ELSE IF reply.kind = "error"
           THEN /\ chat' = IF ChatMayRetry(chat.attempt)
                             THEN [ch EXCEPT !.attempt = chat.attempt + 1,
                                    !.lateWaits = Late(chat.cancelled, chat.lateWaits)]
                             ELSE [ch EXCEPT !.pc = "done",
                                     !.err = "failed to generate chatbot response"]
                /\ UNCHANGED chatMessages
         ELSE /\ chat' = [ch EXCEPT !.pc = "done", !.response = reply.text]
              /\ chatMessages' =
                   SaveChatMessage(
                     SaveChatMessage(chatMessages,
                       [SessionID |-> chat.sessionID, Role |-> "user",
                        Message |-> TextMessage(chat.userMessage)], userErr),
                     [SessionID |-> chat.sessionID, Role |-> "assistant",
                      Message |-> TextMessage(reply.text)], botErr)
  /\ UNCHANGED <<hasGemini, analysisCache, rep>>
  /\ UNCHANGED storeVars
  /\ UNCHANGED genVars
  /\ UNCHANGED subVars
  /\ UNCHANGED saved

ChatAttempt(reply) == ChatAttemptWith(reply, FALSE, FALSE)

(***************************************************************************)
(* HTTP: the validator, the response envelope and the handlers.  What a    *)
(* handler sends is a function of what its call left: SubmitAnswerSend of  *)
(* resp, ChatWithBotSend of chat.                                          *)
(***************************************************************************)
StatusOK == 200
StatusBadRequest == 400
StatusInternalServerError == 500

\* Go errors: nil, *fiber.Error, *validate.FieldsError, any other error
NoError == [type |-> "nil", Code |-> 0, Message |-> "", Fields |-> {}]

FiberError(code, message) ==
  [type |-> "fiber", Code |-> code, Message |-> message, Fields |-> {}]

FieldsError(fields) == [type |-> "fields", Code |-> 0, Message |-> "", Fields |-> fields]

PlainError(text) == [type |-> "error", Code |-> 0, Message |-> text, Fields |-> {}]

\* err.Error()
ErrorText(err) == IF err.type = "fields" THEN "Fields error" ELSE err.Message

\* the field Error of the envelope: absent, a text, or a map of field to
\* message as the set of its entries
NoErrorBody == [kind |-> "nil", message |-> "", fields |-> {}]

MessageBody(message) == [kind |-> "message", message |-> message, fields |-> {}]

FieldsBody(fields) == [kind |-> "fields", message |-> "", fields |-> fields]

NoData == [kind |-> "nil"]

NewFailed(msg, err) ==
  LET res == [StatusCode |-> StatusInternalServerError, Success |-> FALSE,
              Message |-> msg, Error |-> NoErrorBody, Data |-> NoData]
  IN  IF err.type = "fiber"
        THEN [res EXCEPT !.StatusCode = err.Code,
                         !.Error = IF err.Message # "" THEN MessageBody(err.Message)
                                   ELSE NoErrorBody]
      ELSE IF err.type = "fields"
        THEN [res EXCEPT !.StatusCode = StatusBadRequest,
                         !.Error = FieldsBody(err.Fields)]
      ELSE res

NewSuccess(msg, data) ==
  [StatusCode |-> StatusOK, Success |-> TRUE, Message |-> msg,
   Error |-> NoErrorBody, Data |-> data]

\* translateError: the field, named by its json tag, with the English
\* message of the tag "required"
TranslateError(missing) == {<<field, <<field, "is a required field">>>> : field \in missing}

\* ParseAndValidate: the body does not parse (malformed), or fields tagged
\* "required" have their zero value (missing), or the request is valid
ParseAndValidate(malformed, missing) ==
  IF malformed THEN PlainError("unexpected end of JSON input")
  ELSE IF missing # {} THEN FieldsError(TranslateError(missing))
  ELSE NoError

\* the required fields of a SubmitAnswerRequest that are empty; the empty
\* question ID is 0
MissingOfSubmit(req) ==
  {field \in {"user_id", "session_id", "question_id", "answer"} :
     \/ field = "user_id" /\ req.UserID = ""
     \/ field = "session_id" /\ req.SessionID = ""
     \/ field = "question_id" /\ req.QuestionID = 0
     \/ field = "answer" /\ req.Answer = ""}

\* the required fields of a ChatRequest that are empty
MissingOfChat(message) == IF message = "" THEN {"message"} ELSE {}

\* the error a handler hands to NewFailed: a new *fiber.Error with the
\* text of the error it got
BadRequestOf(err) == FiberError(StatusBadRequest, ErrorText(err))

\* what a rejected SubmitAnswer request leaves: the usecase was not called
RejectedResponse(req, err) == [kind |-> "rejected", req |-> req, cause |-> err]

\* the handler of POST /questions/answer: validation, then the usecase
HandleSubmitAnswer(malformed, req, createErr) ==
  LET err == ParseAndValidate(malformed, MissingOfSubmit(req))
  IN  IF err.type # "nil"
        THEN /\ \A p \in DOMAIN sub : sub[p].pc = "idle"
             /\ resp' = RejectedResponse(req, err)
             /\ UNCHANGED <<generated, answers, sub, firstResp>>
             /\ UNCHANGED genVars
             /\ UNCHANGED saved
             /\ UNCHANGED reportVars
        ELSE SubmitAnswerWith(req, createErr)

\* the response the handler of POST /questions/answer sends
SubmitAnswerSend(r) ==
  IF r.kind = "rejected"
    THEN NewFailed("Gagal submit jawaban", BadRequestOf(r.cause))
  ELSE IF r.kind = "error"
    THEN NewFailed("Gagal submit jawaban", BadRequestOf(PlainError(r.err)))
  ELSE NewSuccess("Berhasil submit jawaban",
                  [IsCorrect |-> r.IsCorrect, UserAnswer |-> r.UserAnswer,
                   CorrectAnswer |-> r.CorrectAnswer, QuestionID |-> r.QuestionID,
                   SessionID |-> r.SessionID])

\* what a rejected chat request leaves: the usecase was not called
RejectedChat(sessionID, message, err) ==
  [IdleChat EXCEPT !.pc = "done", !.sessionID = sessionID,
                   !.userMessage = message, !.err = ErrorText(err)]

\* the handler of POST /chatbot/sessions/:session_id up to the first LLM
\* call of the usecase
HandleChatWithBot(sessionID, malformed, message) ==
  LET err == ParseAndValidate(malformed, MissingOfChat(message))
      rejected ==
        IF sessionID = "" THEN FiberError(StatusBadRequest, "session_id is required")
        ELSE IF err.type # "nil" THEN BadRequestOf(err)
        ELSE IF TrimSpace(message) = ""
          THEN FiberError(StatusBadRequest, "message cannot be empty")
        ELSE NoError
  IN  IF rejected.type # "nil"
        THEN /\ rep.pc \in {"idle", "done"}
             /\ chat.pc \in {"idle", "done"}
             /\ chat' = RejectedChat(sessionID, message, rejected)
             /\ UNCHANGED <<hasGemini, analysisCache, chatMessages, rep>>
             /\ UNCHANGED storeVars
             /\ UNCHANGED genVars
             /\ UNCHANGED subVars
             /\ UNCHANGED saved
        ELSE ChatStart(sessionID, message)

\* the response the handler of POST /chatbot/sessions/:session_id sends
\* once the call has ended
ChatWithBotSend(ch) ==
  IF ch.err # ""
    THEN NewFailed("Gagal mengirim pesan ke chatbot", BadRequestOf(PlainError(ch.err)))
    ELSE NewSuccess("Berhasil mengirim pesan ke chatbot",
                    [Response |-> ch.response, SessionID |-> ch.sessionID])

\* number of stored messages GetChatHistory asks the repository for
historyLimit == 50

\* GetChatHistory: the stored messages of the session as history items, in
\* the order the repository gave them.  An item carries the role and the
\* text of its row; the text of created_at is left out, the place of a row
\* in the table stands for its creation time.
GetChatHistory(sessionID) ==
  /\ LET messages == FindChatMessagesBySessionID(chatMessages, sessionID, historyLimit)
     IN  resp' = [kind |-> "history", sessionID |-> sessionID,
                  history |-> [i \in 1..Len(messages) |->
                                 [Role |-> messages[i].Role,
                                  Message |-> messages[i].Message]]]
  /\ UNCHANGED <<generated, answers, firstResp>>
  /\ UNCHANGED genVars
  /\ UNCHANGED <<sub, saved>>
  /\ UNCHANGED reportVars

(***************************************************************************)
(* Initial stores.  The rows are rows the engine itself writes: a cache    *)
(* row is the row saveGeneratedToDB creates for a question generateFromAI  *)
(* returned, an answer row is the row SubmitAnswer saves for a cached      *)
(* question.                                                               *)
(***************************************************************************)
RowA == GeneratedRow(generateFromAI("easy", "b-d", TRUE, ReplyFour, 1, 0), "b-d")

RowB == GeneratedRow(generateFromAI("easy", "m-w", TRUE, ReplyDuplicate, 2, 1), "m-w")

RowC == GeneratedRow(generateFromAI("hard", "p-q", TRUE, ReplyDuplicate, 2, 0), "p-q")

AnswerRow(userID, sessionID, row, answer) ==
  UserAnswerEntity([UserID |-> userID, SessionID |-> sessionID,
                    QuestionID |-> row.QuestionID, Answer |-> answer], row)

\* stores a Generate call may find
GenerateStores ==
  { [generated |-> {}, answers |-> <<>>],
    [generated |-> {RowA, RowB},
     answers |-> <<AnswerRow("u1", "s1", RowA, "kata")>>],
    [generated |-> {RowA, RowC},
     answers |-> <<AnswerRow("u1", "s1", RowA, "data"),
                   AnswerRow("u2", "s1", RowC, " KATA "),
                   AnswerRow("u2", "s2", RowA, "kata")>>] }

TruthOfRows(rows) == {<<row.QuestionID, row.CorrectAnswer>> : row \in rows}

(***************************************************************************)
(* Specification of Generate: one call with one slot (count below the      *)
(* range) or over the cache, from any of the stores, with every reply of   *)
(* the LLM and the background goroutines the call starts                   *)
(***************************************************************************)
NoFirstResp == [t \in Users \X Sessions \X IDs |-> NoResp]

Init ==
  /\ \E store \in GenerateStores :
       /\ generated = store.generated
       /\ answers = store.answers
       /\ aiTruth = TruthOfRows(store.generated)
  /\ disableAI \in BOOLEAN
  /\ rnd \in 0..(RndMod - 1)
  /\ gen = IdleGen
  /\ resultChan = <<>>
  /\ tasks = EmptyBag
  /\ sub = [p \in Procs |-> IdleSub]
  /\ resp = NoResp
  /\ firstResp = NoFirstResp
  /\ saved = {}
  /\ hasGemini = TRUE
  /\ analysisCache = {}
  /\ chatMessages = <<>>
  /\ rep = IdleRep
  /\ chat = IdleChat

Next ==
  \/ \E difficulty \in DifficultyInputs, count \in {0, MaxCount + 1},
        includeAnswer \in BOOLEAN, patterns \in PatternInputs,
        useAI \in BOOLEAN, sessionID \in SessionInputs :
       GenerateStart(difficulty, count, includeAnswer, patterns, useAI, sessionID)
  \/ \E index \in 1..MaxSlots, reply \in LLMReplies, id \in IDs :
       SlotRun(index, reply, id)
  \/ Collect
  \/ \E reply \in LLMReplies, id \in IDs : Replace(reply, id)
  \/ RunTask

Spec == Init /\ [][Next]_vars

(***************************************************************************)
(* Specification of Generate with several slots, or over the cache: the    *)
(* LLM is disabled or fails, every slot gives a fallback question          *)
(***************************************************************************)
SlotReplies == {ReplyError}

NextSlots ==
  \/ \E count \in CountInputs, includeAnswer \in BOOLEAN, useAI \in BOOLEAN,
        sessionID \in SessionInputs :
       GenerateStart("", count, includeAnswer, <<>>, useAI, sessionID)
  \/ \E index \in 1..MaxSlots, reply \in SlotReplies, id \in IDs :
       SlotRun(index, reply, id)
  \/ Collect
  \/ \E reply \in SlotReplies, id \in IDs : Replace(reply, id)
  \/ RunTask

SpecSlots == Init /\ [][NextSlots]_vars

(***************************************************************************)
(* Specification of SubmitAnswer calls made one after another              *)
(***************************************************************************)
InitSubmit ==
  /\ generated \in {{RowA}, {RowA, RowB}}
  /\ answers = <<>>
  /\ disableAI = FALSE
  /\ rnd = 0
  /\ gen = IdleGen
  /\ resultChan = <<>>
  /\ tasks = EmptyBag
  /\ sub = [p \in Procs |-> IdleSub]
  /\ resp = NoResp
  /\ firstResp = NoFirstResp
  /\ saved = {}
  /\ hasGemini = TRUE
  /\ analysisCache = {}
  /\ chatMessages = <<>>
  /\ rep = IdleRep
  /\ chat = IdleChat
  /\ aiTruth = {}

NextSubmit == \E req \in Requests : SubmitAnswer(req)

SpecSubmit == InitSubmit /\ [][NextSubmit]_vars

(***************************************************************************)
(* Specification of SubmitAnswer requests handled concurrently: every      *)
(* handler serves one request, their repository calls interleave           *)
(***************************************************************************)
ConcurrentRequests ==
  [UserID : {"u1"}, SessionID : Sessions, QuestionID : IDs, Answer : {"kata", "data"}]

NextConcurrent ==
  \/ \E p \in Procs, req \in ConcurrentRequests : SubmitFindExisting(p, req)
  \/ \E p \in Procs : SubmitFindGenerated(p)
  \/ \E p \in Procs : SubmitCreate(p)

SpecConcurrent == InitSubmit /\ [][NextConcurrent]_vars

(***************************************************************************)
(* Specification of the cache round trip: Generate calls one after         *)
(* another over a cache that starts empty; calls with use_ai=true fill it  *)
(* through their save goroutines, calls with use_ai=false read it          *)
(***************************************************************************)
RoundTripReplies ==
  { ReplyFour,
    ReplyDuplicate,
    [kind |-> "json", correctAnswer |-> "kafa", options |-> <<"data", "", "data">>] }

RoundTripIDs == {1, 2}

InitRoundTrip ==
  /\ generated = {}
  /\ answers = <<>>
  /\ aiTruth = {}
  /\ disableAI = FALSE
  /\ rnd \in 0..(RndMod - 1)
  /\ gen = IdleGen
  /\ resultChan = <<>>
  /\ tasks = EmptyBag
  /\ sub = [p \in Procs |-> IdleSub]
  /\ resp = NoResp
  /\ firstResp = NoFirstResp
  /\ saved = {}
  /\ hasGemini = TRUE
  /\ analysisCache = {}
  /\ chatMessages = <<>>
  /\ rep = IdleRep
  /\ chat = IdleChat

NextRoundTrip ==
  \/ \E includeAnswer \in BOOLEAN :
       GenerateStart("", 0, includeAnswer, <<>>, TRUE, "")
  \/ \E count \in {0, MaxSlots}, includeAnswer \in BOOLEAN :
       GenerateStart("", count, includeAnswer, <<>>, FALSE, "")
  \/ \E index \in 1..MaxSlots, reply \in RoundTripReplies, id \in RoundTripIDs :
       SlotRun(index, reply, id)
  \/ Collect
  \/ RunTask
  \/ GenerateReturn

SpecRoundTrip == InitRoundTrip /\ [][NextRoundTrip]_vars

\* the same, the runtime running every background goroutine that is started
SpecRoundTripFair == InitRoundTrip /\ [][NextRoundTrip]_vars /\ WF_vars(RunTask)

(***************************************************************************)
(* Specification of the correctness flag: answers in every spelling are    *)
(* submitted one after another, reports of the session are generated       *)
(***************************************************************************)
CorrectnessAnswers ==
  {"kata", "Kata", "KATA", " kata ", " KATA ", "data", "DATA", ""}

CorrectnessRequests ==
  [UserID : {"u1"}, SessionID : {"s1"}, QuestionID : {1, 2},
   Answer : CorrectnessAnswers]

NextCorrectness ==
  \/ \E req \in CorrectnessRequests : SubmitAnswer(req)
  \/ ReportStart("s1")
  \/ ReportAttempt(AnalysisBaik)

SpecCorrectness == InitSubmit /\ [][NextCorrectness]_vars

(***************************************************************************)
(* Specification of SubmitAnswer calls one after another over a database   *)
(* whose INSERT may fail                                                   *)
(***************************************************************************)
FaultRequests ==
  [UserID : {"u1"}, SessionID : Sessions, QuestionID : IDs, Answer : {"kata", "data"}]

NextSubmitFaults ==
  \E req \in FaultRequests, createErr \in BOOLEAN : SubmitAnswerWith(req, createErr)

SpecSubmitFaults == InitSubmit /\ [][NextSubmitFaults]_vars

(***************************************************************************)
(* Specification of the session report: answers are submitted and reports  *)
(* are generated one after another, with or without an LLM client, with    *)
(* every reply of the LLM                                                  *)
(***************************************************************************)
\* stores a report call may find: no answer yet; three answers of session
\* s1, two of them correct; four answers of session s1, three correct
ReportStores ==
  { [generated |-> {RowA, RowB}, answers |-> <<>>],
    [generated |-> {RowA, RowB},
     answers |-> <<AnswerRow("u1", "s1", RowA, "kata"),
                   AnswerRow("u1", "s1", RowB, "data"),
                   AnswerRow("u2", "s1", RowB, " KATA ")>>],
    [generated |-> {RowA, RowB},
     answers |-> <<AnswerRow("u1", "s1", RowA, "kata"),
                   AnswerRow("u1", "s1", RowB, " KATA "),
                   AnswerRow("u2", "s1", RowA, "data"),
                   AnswerRow("u2", "s1", RowB, "kata")>>] }

ReportRequests ==
  [UserID : {"u1"}, SessionID : {"s1"}, QuestionID : {1, 2}, Answer : {"kata", "data"}]

InitReport ==
  /\ \E store \in ReportStores :
       /\ generated = store.generated
       /\ answers = store.answers
  /\ hasGemini \in BOOLEAN
  /\ aiTruth = {}
  /\ disableAI = FALSE
  /\ rnd = 0
  /\ gen = IdleGen
  /\ resultChan = <<>>
  /\ tasks = EmptyBag
  /\ sub = [p \in Procs |-> IdleSub]
  /\ resp = NoResp
  /\ firstResp = NoFirstResp
  /\ saved = {}
  /\ analysisCache = {}
  /\ chatMessages = <<>>
  /\ rep = IdleRep
  /\ chat = IdleChat

NextReport ==
  \/ \E req \in ReportRequests : SubmitAnswer(req)
  \/ \E sessionID \in Sessions : ReportStart(sessionID)
  \/ \E reply \in AnalysisReplies : ReportAttempt(reply)

SpecReport == InitReport /\ [][NextReport]_vars

(***************************************************************************)
(* Specification of the chat: reports are generated and chat requests are  *)
(* served one after another over sessions with and without answers         *)
(***************************************************************************)
ChatStores ==
  { [generated |-> {RowA, RowB},
     answers |-> <<AnswerRow("u1", "s1", RowA, "kata")>>],
    [generated |-> {RowA, RowB},
     answers |-> <<AnswerRow("u1", "s1", RowA, "data"),
                   AnswerRow("u2", "s2", RowB, "kata")>>] }

ChatAnalysisReplies == {AnalysisError, AnalysisBaik, AnalysisEmptyObject}

InitChat ==
  /\ \E store \in ChatStores :
       /\ generated = store.generated
       /\ answers = store.answers
  /\ hasGemini \in BOOLEAN
  /\ aiTruth = {}
  /\ disableAI = FALSE
  /\ rnd = 0
  /\ gen = IdleGen
  /\ resultChan = <<>>
  /\ tasks = EmptyBag
  /\ sub = [p \in Procs |-> IdleSub]
  /\ resp = NoResp
  /\ firstResp = NoFirstResp
  /\ saved = {}
  /\ analysisCache = {}
  /\ chatMessages = <<>>
  /\ rep = IdleRep
  /\ chat = IdleChat

NextChat ==
  \/ \E sessionID \in Sessions : ReportStart(sessionID)
  \/ \E reply \in ChatAnalysisReplies : ReportAttempt(reply)
  \/ \E sessionID \in Sessions : ChatStart(sessionID, "halo")
  \/ \E reply \in ChatReplies : ChatAttempt(reply)

SpecChat == InitChat /\ [][NextChat]_vars

(***************************************************************************)
(* Specification of the accesses to the random source: one Generate call   *)
(* with MaxSlots slots whose goroutines enter and leave their operation on *)
(* u.rnd in every order                                                    *)
(***************************************************************************)
NextRace ==
  \/ \E includeAnswer \in BOOLEAN, sessionID \in SessionInputs :
       GenerateStart("", MaxSlots, includeAnswer, <<>>, TRUE, sessionID)
  \/ \E index \in 1..MaxSlots : RndEnter(index)
  \/ \E index \in 1..MaxSlots, reply \in SlotReplies, id \in IDs,
        r \in 0..(RndMod - 1), crash \in BOOLEAN :
       RndLeave(index, reply, id, r, crash)
  \/ Collect
  \/ \E reply \in SlotReplies, id \in IDs : Replace(reply, id)

SpecRace == Init /\ [][NextRace]_vars

\* The same with the scheduling of the program: the runtime runs every
\* goroutine that can run, every LLM call returns (RndLeave holds the call
\* of its slot), and the caller receives whenever a result waits.
FairRace ==
  /\ \A index \in 1..MaxSlots : WF_vars(RndEnter(index))
  /\ \A index \in 1..MaxSlots :
       WF_vars(\E reply \in SlotReplies, id \in IDs, r \in 0..(RndMod - 1),
                  crash \in BOOLEAN : RndLeave(index, reply, id, r, crash))
  /\ WF_vars(Collect)
  /\ WF_vars(\E reply \in SlotReplies, id \in IDs : Replace(reply, id))

SpecRaceFair == Init /\ [][NextRace]_vars /\ FairRace

(***************************************************************************)
(* Specification of Generate with any count: the slots of the call finish  *)
(* in the order of their indexes, each with a fallback question of an ID   *)
(* of its own; or the call goes over the cache                             *)
(***************************************************************************)
\* count values a client sends: below the range, in it, above it
ClampCounts == {-1, 0, 2, MaxCount + 1}

\* the goroutine of the lowest slot that has not finished runs: its LLM
\* call fails, the ID of its fallback question is the index
SlotRunInOrder(index) ==
  /\ \A other \in gen.pending : index <= other
  /\ SlotRun(index, ReplyError, index)

NextClamp ==
  \/ \E count \in ClampCounts, includeAnswer \in BOOLEAN, useAI \in BOOLEAN :
       GenerateCall("", count, includeAnswer, <<>>, useAI, "")
  \/ \E index \in 1..MaxCount : SlotRunInOrder(index)
  \/ Collect
  \/ RunTask

SpecClamp == Init /\ [][NextClamp]_vars

(***************************************************************************)
(* Specification of the background saves: the same call, the store may     *)
(* refuse the write of a background goroutine, and the runtime runs every  *)
(* goroutine that is started                                               *)
(***************************************************************************)
SaveReplies == {ReplyError, ReplyFour}

NextSave ==
  \/ \E includeAnswer \in BOOLEAN :
       GenerateStart("", MaxSlots, includeAnswer, <<>>, TRUE, "")
  \/ \E index \in 1..MaxSlots, reply \in SaveReplies, id \in RoundTripIDs :
       SlotRun(index, reply, id)
  \/ Collect
  \/ \E reply \in SaveReplies, id \in RoundTripIDs : Replace(reply, id)
  \/ \E failed \in BOOLEAN : RunTaskWith(failed)

SpecSave ==
  InitRoundTrip /\ [][NextSave]_vars
    /\ WF_vars(\E failed \in BOOLEAN : RunTaskWith(failed))

(***************************************************************************)
(* Specification of answers to fallback questions: one Generate call of    *)
(* one slot, with AI disabled or not and the LLM failing or not, and       *)
(* answers submitted to the questions of every ID                          *)
(***************************************************************************)
FallbackRequests ==
  [UserID : {"u1"}, SessionID : {"s1"}, QuestionID : IDs, Answer : {"kata", "data"}]

NextFallback ==
  \/ \E includeAnswer \in BOOLEAN :
       GenerateStart("", MinCount, includeAnswer, <<>>, TRUE, "")
  \/ \E reply \in SaveReplies, id \in IDs : SlotRun(1, reply, id)
  \/ Collect
  \/ RunTask
  \/ \E req \in FallbackRequests : SubmitAnswer(req)

SpecFallback == Init /\ [][NextFallback]_vars

(***************************************************************************)
(* Specification of the options: one Generate call of one slot whose LLM   *)
(* call answers with any option list of up to MaxOptionsLen words, empty   *)
(* and repeated ones included, and any correct answer                      *)
(***************************************************************************)
MaxOptionsLen == 4

OptionWords == {"", "kata", "data"}

OptionLists == UNION {[1..n -> OptionWords] : n \in 0..MaxOptionsLen}

\* "kaca" is not among the words of the lists
OptionReplies ==
  [kind : {"json"}, correctAnswer : {"", "kata", "kaca"}, options : OptionLists]

NextOptions ==
  \/ \E difficulty \in DifficultyInputs, includeAnswer \in BOOLEAN :
       GenerateStart(difficulty, MinCount, includeAnswer, <<>>, TRUE, "")
  \/ \E reply \in OptionReplies : SlotRun(1, reply, 1)
  \/ Collect
  \/ RunTask

SpecOptions == InitRoundTrip /\ [][NextOptions]_vars

(***************************************************************************)
(* Specification of the replacement loop: a Generate call of MaxCount      *)
(* slots for a session that has answered the questions 1..k; the slots     *)
(* give the questions 1..MaxCount, so k of them are dropped, and every     *)
(* replacement is a question the call has seen or a new one                *)
(***************************************************************************)
AnsweredCounts == {0, 3, 7, MaxCount}

\* the IDs of the replacements: one the call has seen, or new ones
ReplacementIDs == {1} \cup ((MaxCount + 1)..(MaxCount + MaxReplacements))

AnsweredRow(id) == [RowA EXCEPT !.QuestionID = id]

InitReplace ==
  /\ \E k \in AnsweredCounts :
       /\ generated = {AnsweredRow(id) : id \in 1..k}
       /\ answers = [id \in 1..k |-> AnswerRow("u1", "s1", AnsweredRow(id), "kata")]
       /\ aiTruth = TruthOfRows({AnsweredRow(id) : id \in 1..k})
  /\ disableAI \in BOOLEAN
  /\ rnd = 0
  /\ gen = IdleGen
  /\ resultChan = <<>>
  /\ tasks = EmptyBag
  /\ sub = [p \in Procs |-> IdleSub]
  /\ resp = NoResp
  /\ firstResp = NoFirstResp
  /\ saved = {}
  /\ hasGemini = TRUE
  /\ analysisCache = {}
  /\ chatMessages = <<>>
  /\ rep = IdleRep
  /\ chat = IdleChat

NextReplace ==
  \/ \E includeAnswer \in BOOLEAN :
       GenerateCall("", MaxCount, includeAnswer, <<>>, TRUE, "s1")
  \/ \E index \in 1..MaxCount : SlotRunInOrder(index)
  \/ Collect
  \/ \E id \in ReplacementIDs : Replace(ReplyError, id)

SpecReplace == InitReplace /\ [][NextReplace]_vars

(***************************************************************************)
(* Specification of the chat with its faults: the client is there, the     *)
(* save of the cache row and the INSERTs of the chat messages may fail     *)
(***************************************************************************)
ChatFaultReplies == {AnalysisError, AnalysisBaik}

InitChatFaults ==
  /\ \E store \in ChatStores :
       /\ generated = store.generated
       /\ answers = store.answers
  /\ hasGemini = TRUE
  /\ aiTruth = {}
  /\ disableAI = FALSE
  /\ rnd = 0
  /\ gen = IdleGen
  /\ resultChan = <<>>
  /\ tasks = EmptyBag
  /\ sub = [p \in Procs |-> IdleSub]
  /\ resp = NoResp
  /\ firstResp = NoFirstResp
  /\ saved = {}
  /\ analysisCache = {}
  /\ chatMessages = <<>>
  /\ rep = IdleRep
  /\ chat = IdleChat

NextChatFaults ==
  \/ \E sessionID \in Sessions : ReportStart(sessionID)
  \/ \E reply \in ChatFaultReplies, saveErr \in BOOLEAN :
       ReportAttemptWith(reply, saveErr)
  \/ \E sessionID \in Sessions : ChatStart(sessionID, "halo")
  \/ \E reply \in ChatReplies, userErr \in BOOLEAN, botErr \in BOOLEAN :
       ChatAttemptWith(reply, userErr, botErr)

SpecChatFaults == InitChatFaults /\ [][NextChatFaults]_vars

(***************************************************************************)
(* Specification of the retry loops under cancellation: the context of a   *)
(* report or chat request is cancelled while the request is in its loop    *)
(***************************************************************************)
NextCancel ==
  \/ \E sessionID \in Sessions : ReportStart(sessionID)
  \/ \E reply \in ChatFaultReplies : ReportAttempt(reply)
  \/ \E sessionID \in Sessions : ChatStart(sessionID, "halo")
  \/ \E reply \in ChatReplies : ChatAttempt(reply)
  \/ CancelRequest

SpecCancel == InitChatFaults /\ [][NextCancel]_vars

(***************************************************************************)
(* Specification of the handlers: answer submissions and chat requests     *)
(* arrive with and without their required fields                           *)
(***************************************************************************)
HTTPRequests ==
  [UserID : {"", "u1"}, SessionID : {"", "s1"}, QuestionID : {0, 1, 3},
   Answer : {"", "kata"}]

HTTPMessages == {"", " ", "halo"}

NextHTTP ==
  \/ \E malformed \in BOOLEAN, req \in HTTPRequests, createErr \in BOOLEAN :
       HandleSubmitAnswer(malformed, req, createErr)
  \/ \E sessionID \in {"", "s1"}, malformed \in BOOLEAN, message \in HTTPMessages :
       HandleChatWithBot(sessionID, malformed, message)
  \/ \E reply \in ChatFaultReplies : ReportAttempt(reply)
  \/ \E reply \in ChatReplies : ChatAttempt(reply)

SpecHTTP == InitChatFaults /\ [][NextHTTP]_vars

(***************************************************************************)
(* Specification of the chat over a history: a session whose report was    *)
(* made and whose chat has gone on for some exchanges; one chat request    *)
(* and history requests are served                                         *)
(***************************************************************************)
\* the messages n exchanges of ChatWithBot have stored, each text named by
\* the number of its exchange
RECURSIVE Exchanges(_, _)
Exchanges(sessionID, n) ==
  IF n = 0 THEN <<>>
  ELSE Exchanges(sessionID, n - 1)
       \o <<[SessionID |-> sessionID, Role |-> "user",
             Message |-> TextMessage(ToString(n))],
            [SessionID |-> sessionID, Role |-> "assistant",
             Message |-> TextMessage(ToString(-n))]>>

HistoryAnswers == <<AnswerRow("u1", "s1", RowA, "kata")>>

\* the report of session s1, made with the analysis of AnalysisBaik
HistoryReport ==
  [BasicReport("s1", HistoryAnswers, {RowA, RowB}) EXCEPT
     !.OverallValue = AnalysisBaik.overall_value,
     !.AIAnalysys = AnalysisBaik.analysis,
     !.Recommendations = AnalysisBaik.recommendations]

HistoryFeedback ==
  [SessionID |-> "s1", Role |-> "assistant",
   Message |-> FeedbackMessage(AnalysisBaik.analysis, AnalysisBaik.recommendations)]

\* exchanges the session has behind it: none, fewer than the context
\* holds, one message more than the context holds, one message more than
\* the history holds
HistoryExchanges == {0, 2, 5, 25}

InitHistory ==
  /\ generated = {RowA, RowB}
  /\ answers = HistoryAnswers
  /\ hasGemini = TRUE
  /\ aiTruth = {}
  /\ disableAI = FALSE
  /\ rnd = 0
  /\ gen = IdleGen
  /\ resultChan = <<>>
  /\ tasks = EmptyBag
  /\ sub = [p \in Procs |-> IdleSub]
  /\ resp = NoResp
  /\ firstResp = NoFirstResp
  /\ saved = {}
  /\ analysisCache = {AnalysisCacheRow(HistoryReport)}
  /\ \E n \in HistoryExchanges :
       chatMessages = <<HistoryFeedback>> \o Exchanges("s1", n)
  /\ rep = IdleRep
  /\ chat = IdleChat

NextHistory ==
  \/ \E sessionID \in Sessions : ChatStart(sessionID, "halo")
  \/ \E reply \in ChatReplies, userErr \in BOOLEAN, botErr \in BOOLEAN :
       ChatAttemptWith(reply, userErr, botErr)
  \/ \E sessionID \in Sessions : GetChatHistory(sessionID)

SpecHistory == InitHistory /\ [][NextHistory]_vars

(***************************************************************************)
(* Properties                                                              *)
(***************************************************************************)
\* C1: when SubmitAnswer calls run one after another, the store holds at
\* most one answer per (user, session, question); a submission for a triple
\* that has a record creates nothing, leaves the records as they are and
\* returns the is_correct, user_answer and correct_answer that the first
\* submission of the triple returned, whatever answer it carries.
C1_SubmitAnswerIdempotent ==
  /\ [](\A req \in Requests :
          Cardinality(ExistingIndexes(answers, req.UserID, req.SessionID,
                                      req.QuestionID)) <= 1)
  /\ [][resp'.kind # "none" =>
          LET req == resp'.req
              first == firstResp[Triple(req)]
          IN  HasExistingAnswer(answers, req.UserID, req.SessionID, req.QuestionID) =>
                /\ answers' = answers
                /\ firstResp' = firstResp
                /\ resp'.kind = "ok"
                /\ first.kind = "ok"
                /\ resp'.IsCorrect = first.IsCorrect
                /\ resp'.UserAnswer = first.UserAnswer
                /\ resp'.CorrectAnswer = first.CorrectAnswer]_vars

\* a repeated submission carried another answer, of another correctness,
\* than the record it got back
C1_RepeatedWithOtherAnswer ==
  /\ resp.kind = "ok"
  /\ resp.existed
  /\ resp.req.Answer # resp.UserAnswer
  /\ IsCorrectAnswer(resp.req.Answer, resp.CorrectAnswer) # resp.IsCorrect

\* C2: when SubmitAnswer calls for one (user, session, question) run
\* concurrently, their repository calls interleaved in any order, at most
\* one answer of the triple is stored.
C2_ConcurrentSubmitsStoreOneRecord ==
  \A req \in ConcurrentRequests :
    Cardinality(ExistingIndexes(answers, req.UserID, req.SessionID,
                                req.QuestionID)) <= 1

\* C3: the list a Generate call returns (use_ai true or false) holds no ID
\* twice and no ID of an answer stored for the session of the call.
C3_NoRepeatedOrAnsweredQuestion ==
  (gen.pc = "done" /\ gen.err = "") =>
    /\ \A i, j \in 1..Len(gen.out) : i # j => gen.out[i].ID # gen.out[j].ID
    /\ \A i \in 1..Len(gen.out), k \in 1..Len(answers) :
         answers[k].SessionID = gen.sessionID => answers[k].QuestionID # gen.out[i].ID

\* a call with use_ai=true for a session with answers replaced a question
\* and returned the full count
C3_ReplacedAnsweredQuestion ==
  /\ gen.pc = "done"
  /\ gen.useAI
  /\ gen.excludedQuestionIDs # <<>>
  /\ gen.i > 0
  /\ gen.count = MaxSlots
  /\ Len(gen.out) = gen.count

\* C4: Generate with use_ai=true and valid filters never returns more than
\* the clamped count; it returns as many questions as the candidates it
\* generated have distinct unanswered IDs, so exactly the count when the
\* slots gave distinct unanswered IDs.
C4_ReturnsClampedCount ==
  (gen.pc = "done" /\ gen.useAI /\ gen.err = "") =>
    /\ gen.count \in MinCount..MaxCount
    /\ Len(gen.out) <= gen.count
    /\ Len(gen.out) = Cardinality(gen.seenIDs \ Range(gen.excludedQuestionIDs))
    /\ (/\ \A i, j \in 1..Len(gen.results) :
             i # j => gen.results[i].ID # gen.results[j].ID
        /\ \A i \in 1..Len(gen.results) :
             gen.results[i].ID \notin Range(gen.excludedQuestionIDs))
         => Len(gen.out) = gen.count

\* the slots alone gave the full count
C4_FullCountWithoutReplacement ==
  /\ gen.pc = "done"
  /\ gen.useAI
  /\ gen.count = MaxSlots
  /\ gen.i = 0
  /\ Len(gen.out) = gen.count

\* C5: every question Generate returns has 2 to 4 options, none empty, no
\* two equal, and its correct answer among them.
C5_OptionsWellFormed ==
  (gen.pc = "done" /\ gen.err = "") =>
    \A i \in 1..Len(gen.out) :
      LET q == gen.out[i]
      IN  /\ Len(q.Options) >= 2
          /\ Len(q.Options) <= 4
          /\ \A k \in 1..Len(q.Options) : q.Options[k] # ""
          /\ NoDuplicates(q.Options)
          /\ q.Answer # "" => q.Answer \in Range(q.Options)

\* C6, as stated: a Generate call with a filter outside the five letter
\* pairs ends with the validation error.
C6_FilterOutsideVocabularyFails ==
  (/\ gen.pc # "idle"
   /\ \E k \in 1..Len(gen.patterns) : gen.patterns[k] \notin Range(allLetterPairs))
    => (gen.pc = "done" /\ gen.err = "invalid pattern")

\* C6, amended: a Generate call with a filter that, trimmed and in lower
\* case, is not empty and outside the five letter pairs ends with the
\* validation error; it calls no LLM, starts no slot and no goroutine and
\* changes nothing in the store.
C6_InvalidFilterRejectedWithoutEffect ==
  /\ []((/\ gen.pc # "idle"
         /\ \E k \in 1..Len(gen.patterns) :
              ToLower(TrimSpace(gen.patterns[k])) \notin Range(allLetterPairs) \cup {""})
          => /\ gen.pc = "done"
             /\ gen.err = "invalid pattern"
             /\ gen.out = <<>>
             /\ gen.llmCalls = 0
             /\ gen.pending = {}
             /\ resultChan = <<>>
             /\ tasks = EmptyBag)
  /\ [][gen'.err = "invalid pattern" =>
          UNCHANGED <<generated, answers, rnd, tasks, resultChan, aiTruth>>]_vars

\* a call over a store with questions and answers ended with the error
C6_RejectedOverFilledStore ==
  /\ gen.pc = "done"
  /\ gen.err = "invalid pattern"
  /\ generated # {}
  /\ answers # <<>>

\* C7: with includeAnswer=false every returned question has an empty
\* answer, while every cached question, and every save on its way, holds the
\* correct answer the LLM gave for it.
C7_AnswerHiddenButCached ==
  /\ (gen.pc = "done" /\ ~gen.includeAnswer) =>
       \A i \in 1..Len(gen.out) : gen.out[i].Answer = ""
  /\ \A row \in generated :
       row.CorrectAnswer # "" /\ <<row.QuestionID, row.CorrectAnswer>> \in aiTruth
  /\ \A t \in BagToSet(tasks) :
       t.kind = "save" => t.q.Answer # "" /\ <<t.q.ID, t.q.Answer>> \in aiTruth

\* a call with includeAnswer=false returned a question without its answer
\* and its row, saved by the call, holds the answer
C7_HiddenAnswerWasSaved ==
  /\ gen.pc = "done"
  /\ gen.useAI
  /\ ~gen.includeAnswer
  /\ Len(gen.out) = 1
  /\ gen.out[1].Answer = ""
  /\ \E row \in generated :
       row.QuestionID = gen.out[1].ID /\ row.CorrectAnswer = "kafa"

\* C8: Generate with use_ai=true and valid filters returns no error; a
\* generation whose LLM call fails, or whose reply is no JSON, lacks a
\* field or has fewer than 2 unique options, gives the question built from
\* the fallback words of its letter pair and starts no save.
C8_LLMFailureYieldsFallback ==
  /\ []((/\ gen.pc = "done"
         /\ gen.useAI
         /\ \A k \in 1..Len(gen.patterns) :
              ToLower(TrimSpace(gen.patterns[k])) \in Range(allLetterPairs) \cup {""})
          => gen.err = "")
  /\ [][\A reply \in LLMReplies, id \in IDs :
          (\/ reply.kind # "json"
           \/ reply.correctAnswer = ""
           \/ Len(reply.options) < 2
           \/ Cardinality((Range(reply.options) \cup {reply.correctAnswer}) \ {""}) < 2)
            => /\ \A index \in 1..MaxSlots :
                    SlotRun(index, reply, id) =>
                      LET q == resultChan'[Len(resultChan')].question
                      IN  /\ q.ID = id
                          /\ q.TargetLetterPair \in Range(gen.letterPairs)
                          /\ IsPermutationOf(q.Options, fallbackWords(q.TargetLetterPair))
                          /\ q.Answer = fallbackWords(q.TargetLetterPair)[1]
                          /\ tasks' = tasks
               /\ Replace(reply, id) =>
                    /\ tasks' = tasks
                    /\ Len(gen'.uniqueResults) > Len(gen.uniqueResults) =>
                         LET q == gen'.uniqueResults[Len(gen'.uniqueResults)]
                         IN  /\ q.ID = id
                             /\ IsPermutationOf(q.Options,
                                                fallbackWords(q.TargetLetterPair))]_vars

\* a call whose LLM call failed returned a fallback question
C8_FailedSlotReturnedFallback ==
  /\ gen.pc = "done"
  /\ gen.useAI
  /\ ~disableAI
  /\ gen.llmCalls > 0
  /\ gen.err = ""
  /\ Len(gen.out) = 1
  /\ IsPermutationOf(gen.out[1].Options, fallbackWords(gen.out[1].TargetLetterPair))
  /\ tasks = EmptyBag
  /\ generated = {}

\* C9: Generate with use_ai=false returns at most the clamped count of
\* questions, each of the requested difficulty and with a letter pair of the
\* validated filter set.
C9_CacheRespectsFilters ==
  (gen.pc = "done" /\ ~gen.useAI /\ gen.err = "") =>
    /\ Len(gen.out) <= gen.count
    /\ \A i \in 1..Len(gen.out) :
         /\ gen.out[i].Difficulty = gen.difficulty
         /\ gen.out[i].TargetLetterPair \in Range(gen.letterPairs)

C11_CacheRoundTrip ==
  (gen.pc = "done" /\ ~gen.useAI /\ gen.includeAnswer /\ gen.err = "") =>
    \A i \in 1..Len(gen.out) :
      \E q \in saved :
        /\ q.ID = gen.out[i].ID
        /\ q.Answer = gen.out[i].Answer
        /\ q.Answer # ""
        /\ IsPermutationOf(gen.out[i].Options, q.Options)

\* a persisted question came back from the cache with its options in
\* another order
C11_ReturnedReshuffled ==
  /\ gen.pc = "done"
  /\ ~gen.useAI
  /\ gen.includeAnswer
  /\ Len(gen.out) = MaxSlots
  /\ \E q \in saved :
       /\ q.ID = gen.out[1].ID
       /\ q.Answer = gen.out[1].Answer
       /\ q.Options # gen.out[1].Options
       /\ Len(q.Options) = 3

\* the texts a and b are equal once the surrounding spaces are removed and
\* the case of the letters is ignored
SameIgnoringCaseAndSpace(a, b) ==
  LET x == TrimRight(TrimLeft(Chars(a)))
      y == TrimRight(TrimLeft(Chars(b)))
  IN  /\ Len(x) = Len(y)
      /\ \A i \in 1..Len(x) : LowerChar(x[i]) = LowerChar(y[i])

\* C12: SubmitAnswer flags an answer correct exactly when its text equals
\* the correct answer of the cached question after trimming the surrounding
\* whitespace and ignoring the case; the flag and the correct answer are
\* stored with the answer and stay as stored; the session listing and the
\* report take the stored flag.
C12_CorrectnessNormalised ==
  /\ [][/\ answers' # answers =>
               LET req == resp'.req
                   row == answers'[Len(answers')]
                   generatedQ == FindGeneratedByQuestionID(generated, req.QuestionID)
               IN  /\ Len(answers') = Len(answers) + 1
                   /\ row.IsCorrect <=>
                        SameIgnoringCaseAndSpace(req.Answer, generatedQ.CorrectAnswer)
                   /\ row.CorrectAnswer = generatedQ.CorrectAnswer
                   /\ row.UserAnswer = req.Answer
                   /\ resp'.IsCorrect = row.IsCorrect
                   /\ resp'.CorrectAnswer = row.CorrectAnswer
         /\ \A i \in 1..Len(answers) : answers'[i] = answers[i]]_vars
  /\ [](\A sessionID \in Sessions :
          LET found == FindUserAnswersBySessionID(answers, sessionID)
              logs == GetSessionAnswers(answers, generated, sessionID)
          IN  /\ Len(logs) = Len(found)
              /\ \A i \in 1..Len(logs) :
                   /\ logs[i].IsCorrect = found[i].IsCorrect
                   /\ logs[i].CorrectAnswer = found[i].CorrectAnswer)
  /\ []((rep.pc = "done" /\ rep.err = "") =>
          /\ rep.report.CorrectAnswers =
               Cardinality({i \in 1..Len(rep.answers) : rep.answers[i].IsCorrect})
          /\ rep.report.WrongAnswers =
               Cardinality({i \in 1..Len(rep.answers) : ~rep.answers[i].IsCorrect}))

\* an answer in capitals between spaces was stored as correct, one in
\* capitals of another word as wrong, and the report counted them so
C12_SpellingsJudged ==
  /\ Len(answers) = 2
  /\ \E i, j \in 1..Len(answers) :
       /\ answers[i].UserAnswer = " KATA "
       /\ answers[i].CorrectAnswer = "kata"
       /\ answers[i].IsCorrect
       /\ answers[j].UserAnswer = "DATA"
       /\ ~answers[j].IsCorrect
  /\ rep.pc = "done"
  /\ rep.report.CorrectAnswers = 1
  /\ rep.report.WrongAnswers = 1

\* C13: a SubmitAnswer call for a question without a row in the cache
\* returns an error and stores no answer; a call whose INSERT of the answer
\* fails returns an error, not a success, and stores nothing.
C13_SubmitFailuresAreErrors ==
  [][resp'.kind # "none" =>
       LET req == resp'.req
       IN  /\ ~HasGenerated(generated, req.QuestionID) =>
                /\ resp'.kind = "error"
                /\ answers' = answers
           /\ (/\ SubmitAnswerWith(req, TRUE)
               /\ ~HasExistingAnswer(answers, req.UserID, req.SessionID, req.QuestionID)
               /\ HasGenerated(generated, req.QuestionID)) =>
                /\ resp'.kind = "error"
                /\ answers' = answers]_vars

\* after a stored answer, the INSERT of another answer to a cached
\* question failed and the call returned the error
C13_SaveFailedAfterSuccess ==
  /\ resp.kind = "error"
  /\ resp.err = "failed to save answer"
  /\ HasGenerated(generated, resp.req.QuestionID)
  /\ Len(answers) = 1
  /\ ~HasExistingAnswer(answers, resp.req.UserID, resp.req.SessionID,
                        resp.req.QuestionID)

\* C14: GenerateSessionReport for a session without a stored answer
\* returns an error; it makes no LLM call and leaves the analysis cache and
\* the chat messages as they are.
C14_EmptySessionIsError ==
  /\ [][(/\ rep' # rep
         /\ rep.pc \in {"idle", "done"}
         /\ \A i \in 1..Len(answers) : answers[i].SessionID # rep'.sessionID)
          => /\ rep'.pc = "done"
             /\ rep'.err # ""
             /\ rep'.llmCalls = 0
             /\ rep'.report = NoReport
             /\ analysisCache' = analysisCache
             /\ chatMessages' = chatMessages]_vars
  /\ []((rep.pc = "done" /\ rep.err # "") =>
          (rep.llmCalls = 0 /\ rep.answers = <<>>))

\* the report of a session without answers failed while the cache and the
\* chat held the rows of another session
C14_EmptySessionBesideFilledOne ==
  /\ rep.pc = "done"
  /\ rep.err # ""
  /\ rep.sessionID = "s2"
  /\ \E row \in analysisCache : row.SessionID = "s1"
  /\ Len(chatMessages) = 1
  /\ chatMessages[1].SessionID = "s1"

\* the answers of the session the report call of rep read: the store holds
\* them, in the order of the listing, as the oldest answers of the session
StoredWhenRead(r) ==
  LET found == FindUserAnswersBySessionID(answers, r.sessionID)
  IN  /\ Len(r.answers) <= Len(found)
      /\ \A i \in 1..Len(r.answers) :
           r.answers[i] = found[Len(found) - Len(r.answers) + i]

\* C15: the accuracy rate of a report is correct / total * 100 to one
\* decimal place, total being the number of stored answers of the session
\* and correct the number of them that are flagged correct; 3 of 4 is 75.0%.
C15_AccuracyRate ==
  /\ []((rep.pc \in {"analysis", "done"} /\ rep.err = "") =>
          LET total == rep.report.TotalQuestions
              correct == rep.report.CorrectAnswers
              rate == rep.report.AccuracyRate
              tenths == rate[1] * 10 + rate[2]
          IN  /\ StoredWhenRead(rep)
              /\ total = Len(rep.answers)
              /\ total > 0
              /\ correct = Cardinality({i \in 1..total : rep.answers[i].IsCorrect})
              /\ rate[2] \in 0..9
              /\ 2 * (tenths * total - 1000 * correct) <= total
              /\ 2 * (1000 * correct - tenths * total) <= total
              /\ (correct = 3 /\ total = 4) => rate = <<75, 0>>)
  /\ [][(rep' # rep /\ rep.pc \in {"idle", "done"}) =>
          rep'.answers = FindUserAnswersBySessionID(answers, rep'.sessionID)]_vars

\* a report of 3 correct answers of 4
C15_ThreeOfFour ==
  /\ rep.pc = "done"
  /\ rep.err = ""
  /\ rep.report.TotalQuestions = 4
  /\ rep.report.CorrectAnswers = 3
  /\ rep.report.AccuracyRate = <<75, 0>>

\* C16: a report made without a usable LLM (no client, or every analysis
\* call failed) is returned without an error, with the fallback analysis
\* and recommendations and the label "baik".
C16_UnusableLLMGivesFallback ==
  (rep.pc = "done" /\ rep.answers # <<>> /\ rep.failures = rep.llmCalls) =>
    /\ rep.err = ""
    /\ rep.report.OverallValue = "baik"
    /\ \E a \in {TransportFallback, ParseFallback} :
         /\ rep.report.AIAnalysys = a.analysis
         /\ rep.report.Recommendations = a.recommendations

\* C17: a report call makes at most 3 analysis calls; a failed call
\* (transport error or text that does not parse) is followed by another one
\* unless it was the third, the first text that parses ends the calls and
\* gives the analysis, the third failure gives the fallback analysis,
\* recommendations and label; none of this makes the report call fail.
C17_AtMostThreeAnalysisCalls ==
  /\ [](rep.llmCalls <= 3 /\ (rep.llmCalls > 0 => rep.err = ""))
  /\ [][\A reply \in AnalysisReplies :
          ReportAttempt(reply) =>
            /\ rep'.llmCalls = rep.llmCalls + 1
            /\ rep'.err = ""
            /\ reply.kind = "json" =>
                 /\ rep'.pc = "done"
                 /\ rep'.report.AIAnalysys = reply.analysis
                 /\ rep'.report.Recommendations = reply.recommendations
                 /\ rep'.report.OverallValue = reply.overall_value
            /\ (reply.kind # "json" /\ rep.llmCalls < 2) =>
                 /\ rep'.pc = "analysis"
                 /\ UNCHANGED <<analysisCache, chatMessages>>
            /\ (reply.kind # "json" /\ rep.llmCalls = 2) =>
                 /\ rep'.pc = "done"
                 /\ rep'.report.OverallValue = "baik"
                 /\ \E a \in {TransportFallback, ParseFallback} :
                      /\ rep'.report.AIAnalysys = a.analysis
                      /\ rep'.report.Recommendations = a.recommendations]_vars

\* the third analysis call, after two failed ones, gave the analysis
C17_ThirdCallSucceeded ==
  /\ rep.pc = "done"
  /\ rep.llmCalls = 3
  /\ rep.failures = 2
  /\ rep.report.AIAnalysys = AnalysisCukup.analysis
  /\ rep.report.OverallValue = "cukup"

\* C18: the overall value of every returned report, and of every row of
\* the analysis cache, is one of the five labels.
C18_OverallValueIsLabel ==
  /\ (rep.pc = "done" /\ rep.err = "") => rep.report.OverallValue \in OverallValues
  /\ \A row \in analysisCache : row.OverallValue \in OverallValues

\* C19: the analysis cache holds at most one row per session, and after a
\* report of a session was computed its row holds the counts, the accuracy,
\* the analysis, the recommendations and the label of that report.
C19_CacheHoldsLatestReport ==
  /\ \A sessionID \in Sessions :
       Cardinality({row \in analysisCache : row.SessionID = sessionID}) <= 1
  /\ (rep.pc = "done" /\ rep.err = "") =>
       \E row \in analysisCache :
         /\ row.SessionID = rep.sessionID
         /\ row.TotalQuestions = rep.report.TotalQuestions
         /\ row.CorrectAnswers = rep.report.CorrectAnswers
         /\ row.WrongAnswers = rep.report.WrongAnswers
         /\ row.AccuracyRate = rep.report.AccuracyRate
         /\ row.AIAnalysis = rep.report.AIAnalysys
         /\ row.Recommendations = rep.report.Recommendations
         /\ row.OverallValue = rep.report.OverallValue

\* the feedback messages of a session among the chat messages
FeedbackIndexes(rows, sessionID) ==
  {i \in 1..Len(rows) : rows[i].SessionID = sessionID /\ rows[i].Message[1] = "feedback"}

C21_ReportBeforeChat ==
  /\ [](chat.pc = "reply" =>
          \E row \in analysisCache : row.SessionID = chat.sessionID)
  /\ [][\A sessionID \in Sessions :
          ChatStart(sessionID, "halo") =>
            IF \E row \in analysisCache : row.SessionID = sessionID
              THEN /\ rep' = rep
                   /\ analysisCache' = analysisCache
                   /\ chatMessages' = chatMessages
                   /\ chat'.pc = "reply"
              ELSE (\E i \in 1..Len(answers) : answers[i].SessionID = sessionID) =>
                     /\ rep'.pc = "analysis"
                     /\ rep'.caller = "chat"
                     /\ rep'.sessionID = sessionID
                     /\ chat'.pc = "report"
                     /\ chat'.llmCalls = 0]_vars
  /\ [][(chat.pc = "report" /\ chat'.pc # "report") =>
          /\ rep'.pc = "done"
          /\ rep'.caller = "chat"
          /\ rep'.sessionID = chat.sessionID
          /\ chat'.llmCalls = 0
          /\ IF \E row \in analysisCache' : row.SessionID = chat.sessionID
               THEN chat'.pc = "reply" /\ chat'.err = ""
               ELSE chat'.pc = "done" /\ chat'.err # ""]_vars
  /\ [][\A userErr \in BOOLEAN, botErr \in BOOLEAN :
          ChatAttemptWith([kind |-> "text", text |-> "Semangat!"], userErr, botErr) =>
            /\ chat'.pc = "done"
            /\ chat'.err = ""
            /\ chat'.response = "Semangat!"]_vars

\* the chat of a session without a row succeeded after the report it ran
C21_ChatSucceededAfterItsReport ==
  /\ chat.pc = "done"
  /\ chat.err = ""
  /\ chat.llmCalls >= 1
  /\ rep.pc = "done"
  /\ rep.caller = "chat"
  /\ rep.sessionID = chat.sessionID
  /\ \E row \in analysisCache : row.SessionID = chat.sessionID

\* the stored messages of a session, oldest first
StoredOf(rows, sessionID) == SelectSeq(rows, LAMBDA row : row.SessionID = sessionID)

\* C22: the messages ChatWithBot sends to the LLM are the system prompt,
\* then the 10 most recent stored messages of the session (all of them when
\* there are fewer), oldest first, then the message of the user.
C22_ContextIsNewestTen ==
  chat.pc = "reply" =>
    LET stored == StoredOf(chatMessages, chat.sessionID)
        first == IF Len(stored) > 10 THEN Len(stored) - 9 ELSE 1
        sent == chat.messages
    IN  /\ Len(sent) = (Len(stored) - first + 1) + 2
        /\ sent[1].Role = "system"
        /\ \A i \in first..Len(stored) :
             /\ sent[i - first + 2].Role = stored[i].Role
             /\ sent[i - first + 2].Content = stored[i].Message
        /\ sent[Len(sent)] = [Role |-> "user", Content |-> <<"text", chat.userMessage, "">>]

\* C23: one ChatWithBot call makes at most 3 calls of the chat LLM, and
\* only in its retry loop.  A call that gives a text ends the loop with
\* that text as the reply; a failed call is followed by the next one while
\* fewer than 3 were made; the third failure ends ChatWithBot with an
\* error and no reply.  A failed call appends no chat message.
C23_ChatGivesUpAfterThreeCalls ==
  /\ [](chat.llmCalls <= 3)
  /\ [][chat.pc # "reply" => chat'.llmCalls \in {chat.llmCalls, 0}]_vars
  /\ [][(chat.pc = "reply" /\ chat' # chat) =>
          /\ chat'.llmCalls = chat.llmCalls + 1
          /\ \/ /\ chat'.pc = "done"
                /\ chat'.err = ""
                /\ chat'.response # ""
             \/ /\ chat'.pc = "reply"
                /\ chat'.llmCalls < 3
                /\ chat'.response = ""
                /\ chatMessages' = chatMessages
             \/ /\ chat'.pc = "done"
                /\ chat'.llmCalls = 3
                /\ chat'.err # ""
                /\ chat'.response = ""
                /\ chatMessages' = chatMessages]_vars

\* three calls of the chat LLM failed: the chat ended with an error, the
\* feedback message of the report is the only message of the session
C23_ThreeFailuresStoredNothing ==
  /\ chat.pc = "done"
  /\ chat.err = "failed to generate chatbot response"
  /\ chat.llmCalls = 3
  /\ chat.response = ""
  /\ Len(chatMessages) = 1
  /\ chatMessages[1].SessionID = chat.sessionID
  /\ chatMessages[1].Message[1] = "feedback"

\* C24: a ChatWithBot call that got a text from the chat LLM returns that
\* text without an error whether its two INSERTs succeed or fail.  The
\* messages it stores are appended after the existing ones, which stay as
\* they are: the message of the user, then the reply; both when both
\* INSERTs succeed, and one or none of them when INSERTs fail.
C24_ReplyStoredBestEffort ==
  /\ [][(chat.pc = "reply" /\ chat'.pc = "done" /\ chat'.response # "") =>
          LET userMsg == [SessionID |-> chat.sessionID, Role |-> "user",
                          Message |-> <<"text", chat.userMessage, "">>]
              botMsg == [SessionID |-> chat.sessionID, Role |-> "assistant",
                         Message |-> <<"text", chat'.response, "">>]
          IN  /\ chat'.err = ""
              /\ chatMessages' \in {chatMessages \o <<userMsg, botMsg>>,
                                     chatMessages \o <<userMsg>>,
                                     chatMessages \o <<botMsg>>,
                                     chatMessages}]_vars
  /\ [][\A reply \in {[kind |-> "text", text |-> "Semangat!"]} :
          \A userErr \in BOOLEAN, botErr \in BOOLEAN :
            ChatAttemptWith(reply, userErr, botErr) =>
              /\ chat'.pc = "done"
              /\ chat'.err = ""
              /\ chat'.response = reply.text
              /\ Len(chatMessages') =
                   Len(chatMessages) + (IF userErr THEN 0 ELSE 1)
                                     + (IF botErr THEN 0 ELSE 1)
              /\ (~userErr /\ ~botErr) =>
                   chatMessages' =
                     chatMessages
                     \o <<[SessionID |-> chat.sessionID, Role |-> "user",
                           Message |-> <<"text", chat.userMessage, "">>],
                          [SessionID |-> chat.sessionID, Role |-> "assistant",
                           Message |-> <<"text", reply.text, "">>]>>]_vars

\* the reply was returned although the INSERT of the message of the user
\* failed: the reply follows the feedback message
C24_ReplyReturnedWithLostInsert ==
  /\ chat.pc = "done"
  /\ chat.err = ""
  /\ chat.response = "Semangat!"
  /\ Len(chatMessages) = 2
  /\ chatMessages[1].Message[1] = "feedback"
  /\ chatMessages[2].Role = "assistant"
  /\ chatMessages[2].Message = <<"text", "Semangat!", "">>
  /\ chatMessages[2].SessionID = chat.sessionID

\* C25: GetChatHistory returns the stored messages of the session in the
\* order of their creation, the oldest first, each with its role and its
\* text, and never more than 50 of them: the first 50 when the session has
\* more.
C25_HistoryOldestFirstCapped ==
  [][(resp' # resp /\ resp'.kind = "history") =>
       LET stored == StoredOf(chatMessages, resp'.sessionID)
           history == resp'.history
       IN  /\ Len(history) <= 50
           /\ Len(history) = IF Len(stored) > 50 THEN 50 ELSE Len(stored)
           /\ \A i \in 1..Len(history) :
                /\ history[i].Role = stored[i].Role
                /\ history[i].Message = stored[i].Message]_vars

\* the history of a session with 51 stored messages was returned: 50 items
C25_HistoryOfLongSessionCut ==
  /\ resp.kind = "history"
  /\ resp.sessionID = "s1"
  /\ Len(resp.history) = 50
  /\ Len(StoredOf(chatMessages, "s1")) > 50
  /\ resp.history[1].Message[1] = "feedback"

\* C26: Generate works with the clamped count: a count above 10 is taken
\* as 10, a count of 0 or less as 1, any other count as it is.  With
\* use_ai=true the call starts exactly that many slots and no slot is
\* started later; with use_ai=false it returns at most that many cached
\* questions.
C26_CountClampedBeforeWork ==
  /\ [][\A count \in ClampCounts :
          (\E includeAnswer \in BOOLEAN, useAI \in BOOLEAN :
             GenerateCall("", count, includeAnswer, <<>>, useAI, "")) =>
            LET clamped == IF count > 10 THEN 10 ELSE IF count <= 0 THEN 1 ELSE count
            IN  /\ gen'.count = clamped
                /\ gen'.useAI =>
                     /\ gen'.pc = "slots"
                     /\ gen'.pending = 1..clamped
                     /\ Len(gen'.results) = clamped
                /\ ~gen'.useAI =>
                     /\ gen'.pc = "done"
                     /\ gen'.pending = {}
                     /\ Len(gen'.out) <= clamped]_vars
  /\ [](gen.pc = "slots" =>
          Cardinality(gen.pending) + Len(resultChan) + gen.received = gen.count)
  /\ [](gen.count \in {0} \cup (1..10))

\* a call with count 11 has run 10 slots and returned 10 questions
C26_ElevenRanTenSlots ==
  /\ gen.pc = "done"
  /\ gen.useAI
  /\ gen.count = 10
  /\ gen.received = 10
  /\ Len(gen.out) = 10
  /\ \A i, j \in 1..10 : i # j => gen.out[i].ID # gen.out[j].ID

\* C27: a request that fails the field validation is answered with status
\* 400 and, as its error body, the map of each missing field to its
\* translated message; a request rejected for another reason and a failed
\* call are answered with a text as error body, with status 400 when the
\* client is at fault and status 500 when the store failed; a call that
\* succeeded is answered with status 200.
C27_ErrorEnvelope ==
  /\ resp.kind = "rejected" =>
       LET sent == SubmitAnswerSend(resp)
       IN  /\ ~sent.Success
           /\ sent.StatusCode = 400
           /\ IF resp.cause.type = "fields"
                THEN sent.Error =
                       [kind |-> "fields", message |-> "",
                        fields |-> {<<field, <<field, "is a required field">>>> :
                                      field \in MissingOfSubmit(resp.req)}]
                ELSE sent.Error.kind = "message"
  /\ resp.kind = "error" =>
       LET sent == SubmitAnswerSend(resp)
       IN  /\ ~sent.Success
           /\ sent.Error.kind = "message"
           /\ sent.StatusCode = IF resp.err = "failed to save answer" THEN 500 ELSE 400
  /\ resp.kind = "ok" =>
       LET sent == SubmitAnswerSend(resp)
       IN  sent.Success /\ sent.StatusCode = 200 /\ sent.Error.kind = "nil"
  /\ chat.pc = "done" =>
       LET sent == ChatWithBotSend(chat)
       IN  IF chat.err = "" THEN sent.Success /\ sent.StatusCode = 200
           ELSE /\ ~sent.Success
                /\ sent.StatusCode = 400
                /\ IF chat.err = "Fields error"
                     THEN sent.Error =
                            [kind |-> "fields", message |-> "",
                             fields |-> {<<"message", <<"message", "is a required field">>>>}]
                     ELSE sent.Error.kind = "message"

\* C28: the random source of the engine is used by one task at a time: at
\* no moment are two generation slots inside an operation on it.
C28_RndUsedByOneTaskAtATime == Cardinality(gen.inRnd) <= 1

\* the positions of results whose question the duplicate filter keeps: the
\* ID is not excluded and no earlier position holds it
KeptSlots(g) ==
  {k \in 1..g.count :
     /\ g.results[k].ID \notin Range(g.excludedQuestionIDs)
     /\ \A j \in 1..(k - 1) : g.results[j].ID # g.results[k].ID}

\* the j-th of a set of positions, in increasing order
NthSlot(slots, j) ==
  CHOOSE k \in slots : Cardinality({m \in slots : m < k}) = j - 1

\* C29: in a Generate call with useAI=true the result of slot i is placed at
\* position i of the collected results whatever the order the slots
\* complete in, and the duplicate filter keeps the surviving questions in
\* slot order.
C29_ResultsInSlotOrder ==
  /\ [][Collect =>
         LET r == Head(resultChan)
         IN  /\ gen'.results[r.index] = r.question
             /\ \A k \in 1..gen.count :
                  k # r.index => gen'.results[k] = gen.results[k]]_vars
  /\ [](gen.useAI /\ gen.pc \in {"replace", "done"} /\ gen.err = "" =>
         LET n == gen.count - gen.shortage
         IN  /\ n = Cardinality(KeptSlots(gen))
             /\ n <= Len(gen.uniqueResults)
             /\ \A j \in 1..n :
                  gen.uniqueResults[j] = gen.results[NthSlot(KeptSlots(gen), j)])

\* a later slot has reported first and its question waits at its own
\* position while the position of the earlier slot is still empty
C29_LaterSlotArrivedFirst ==
  /\ gen.pc = "slots"
  /\ gen.received = 1
  /\ gen.results[MaxSlots] # ZeroQuestion
  /\ gen.results[1] = ZeroQuestion

\* the slots whose result waits in the channel
Reported == {resultChan[k].index : k \in 1..Len(resultChan)}

\* C30: Generate with useAI=true starts exactly the clamped count of slots,
\* each slot reports exactly one result, and the caller goes on to the
\* duplicate filter only after all of them have reported; every LLM call
\* returning, every slot finishes and the call ends with no slot left
\* blocked on its report.
C30_FanOutFanIn ==
  /\ [][gen.pc = "idle" /\ gen'.pc = "slots" =>
         /\ gen'.pending = 1..gen'.count
         /\ gen'.received = 0
         /\ resultChan' = <<>>]_vars
  /\ [](gen.pc = "slots" =>
         /\ Cardinality(Reported) = Len(resultChan)
         /\ Reported \cap gen.pending = {}
         /\ Cardinality(gen.pending) + Len(resultChan) + gen.received = gen.count)
  /\ [][gen.pc = "slots" /\ gen'.pc \in {"replace", "done"} =>
         /\ gen'.received = gen.count
         /\ gen.pending = {}
         /\ resultChan' = <<>>]_vars
  /\ (gen.pc = "slots") ~> (gen.pc = "done" /\ gen.pending = {} /\ resultChan = <<>>)

\* C31: the retry loops of the analysis and of the chat honour the
\* cancellation of the request between attempts: once the context is
\* cancelled no further LLM attempt is started and no further backoff wait
\* is made.
C31_RetryLoopsHonourCancellation ==
  /\ rep.lateCalls = 0 /\ rep.lateWaits = 0
  /\ chat.lateCalls = 0 /\ chat.lateWaits = 0

\* the smaller of two numbers
Least(a, b) == IF a < b THEN a ELSE b

\* C32: when members of the batch are dropped as duplicates Generate makes
\* at most 5 replacement generations and never more than the shortfall, one
\* LLM-or-fallback generation each, stops as soon as the requested count is
\* reached, and returns the fewer questions as a success when the shortfall
\* remains.
C32_ReplacementsBounded ==
  /\ [](gen.useAI /\ gen.pc \in {"replace", "done"} /\ gen.received = gen.count =>
         /\ gen.i <= 5
         /\ gen.i <= gen.shortage
         /\ gen.pc = "replace" => Len(gen.uniqueResults) < gen.count
         /\ gen.pc = "done" =>
              /\ gen.err = ""
              /\ Len(gen.out) <= gen.count
              /\ Len(gen.out) < gen.count => gen.i = Least(5, gen.shortage))
  /\ [][gen.pc = "replace" =>
         /\ gen'.i = gen.i + 1
         /\ Len(gen'.uniqueResults) <= Len(gen.uniqueResults) + 1
         /\ gen'.pc = "replace" =>
              gen'.i < gen.shortage /\ Len(gen'.uniqueResults) < gen.count]_vars

\* seven of ten questions were dropped, five replacements were made and the
\* call returned eight questions without an error
C32_FiveReplacementsLeftShort ==
  /\ gen.pc = "done"
  /\ gen.err = ""
  /\ gen.shortage = 7
  /\ gen.i = 5
  /\ Len(gen.out) = 8

\* the positions of options that hold a word for the first time, the empty
\* word and the correct answer left out
OtherOptions(options, correctAnswer) ==
  {k \in 1..Len(options) :
     /\ options[k] \notin {"", correctAnswer}
     /\ \A j \in 1..(k - 1) : options[j] # options[k]}

\* C33: for every option list and every non-empty correct answer the
\* deduplication of the options gives a list that starts with the correct
\* answer, holds no empty string and no string twice, and goes on with the
\* distinct other options in the order of their first occurrence; a list of
\* fewer than 2 elements makes the AI generation fail and the slot fall
\* back.
C33_OptionsDeduplicated ==
  [][\A reply \in OptionReplies :
       reply.correctAnswer # "" /\ ~disableAI /\ SlotRun(1, reply, 1) =>
         LET unique == deduplicateOptions(reply.options, reply.correctAnswer)
             others == OtherOptions(reply.options, reply.correctAnswer)
             q == resultChan'[Len(resultChan')].question
         IN  /\ unique[1] = reply.correctAnswer
             /\ \A k \in 1..Len(unique) : unique[k] # ""
             /\ \A j, k \in 1..Len(unique) : j # k => unique[j] # unique[k]
             /\ Len(unique) = 1 + Cardinality(others)
             /\ \A j \in 1..Cardinality(others) :
                  unique[j + 1] = reply.options[NthSlot(others, j)]
             /\ Len(unique) < 2 =>
                  /\ q.Answer = fallbackWords(q.TargetLetterPair)[1]
                  /\ IsPermutationOf(q.Options, fallbackWords(q.TargetLetterPair))
                  /\ tasks' = tasks
             /\ Len(unique) >= 2 /\ Len(reply.options) >= 2 =>
                  /\ q.Answer = reply.correctAnswer
                  /\ IsPermutationOf(q.Options, unique)]_vars

\* a slot returned the question of a reply whose options, all of them other
\* words than the correct answer, were cut down to one
C33_RepeatedOptionDropped ==
  /\ gen.pc = "done"
  /\ gen.results[1].Answer = "kaca"
  /\ Len(gen.results[1].Options) = 2

\* question q is built from the word list of its letter pair
FromWordList(q) ==
  LET words == fallbackWords(q.TargetLetterPair)
  IN  /\ q.TargetLetterPair \in Range(gen.letterPairs)
      /\ Len(q.Options) = 4
      /\ NoDuplicates(q.Options)
      /\ IsPermutationOf(q.Options, words)
      /\ q.Answer = words[1]

\* C34: with AI generation disabled, Generate with useAI=true calls the LLM
\* never and persists nothing; every slot gives a question built from the
\* fixed word list of its letter pair: 4 distinct options that are a
\* permutation of the list, the first word of the list as correct answer.
C34_DisabledAIUsesWordList ==
  (disableAI /\ gen.useAI /\ gen.err = "") =>
    /\ gen.llmCalls = 0
    /\ tasks = EmptyBag
    /\ saved = {}
    /\ \A k \in 1..Len(resultChan) : FromWordList(resultChan[k].question)
    /\ \A k \in 1..Len(gen.results) :
         gen.results[k] # ZeroQuestion => FromWordList(gen.results[k])
    /\ \A k \in 1..Len(gen.uniqueResults) : FromWordList(gen.uniqueResults[k])
    /\ gen.pc = "done" =>
         \A k \in 1..Len(gen.out) :
           gen.out[k] = [gen.uniqueResults[k] EXCEPT
                           !.Answer = IF gen.includeAnswer THEN @ ELSE ""]

\* a call with AI disabled returned a question of the word list of p-q
C34_DisabledCallReturned ==
  /\ disableAI
  /\ gen.useAI
  /\ gen.pc = "done"
  /\ gen.err = ""
  /\ Len(gen.out) >= 1
  /\ gen.out[1].TargetLetterPair = "p-q"
  /\ gen.results[1].Answer = "pagi"

\* a save of question id is on its way / has ended with an error
SavePending(id) == \E t \in BagToSet(tasks) : t.kind = "save" /\ t.id = id

SaveRefused(id) == \E t \in BagToSet(tasks) : t.kind = "failed" /\ t.id = id

C36_IDDeterminedByContent ==
  /\ \A r1, r2 \in generated :
       r1.CorrectAnswer = r2.CorrectAnswer /\ r1.Difficulty = r2.Difficulty
         => r1.QuestionID = r2.QuestionID
  /\ \A r1, r2 \in generated : r1.QuestionID = r2.QuestionID => r1 = r2

\* the usage increments of question id that have not run yet
IncrementsPending(bag, id) == CopiesIn(IncrementTask(id), bag)

\* the usage counter of question id in table rows
UsageCountOf(rows, id) == (CHOOSE row \in rows : row.QuestionID = id).UsageCount

\* C37: no operation removes a generated-question row or lowers its usage
\* counter; a row is created with the counter 1; each time Generate with
\* useAI=false returns the question, one increment is started that does not
\* delay the response and that eventually adds exactly 1 to the counter.
C37_UsageCounterOnlyGrows ==
  /\ [][/\ \A row \in generated :
            \E after \in generated' :
              /\ after.QuestionID = row.QuestionID
              /\ after.UsageCount >= row.UsageCount
        /\ \A after \in generated' :
            (\A row \in generated : row.QuestionID # after.QuestionID)
              => after.UsageCount = 1]_vars
  /\ [][gen.pc = "idle" /\ gen'.pc = "done" /\ ~gen'.useAI /\ gen'.err = "" =>
          /\ generated' = generated
          /\ \A id \in RoundTripIDs :
               IncrementsPending(tasks', id) =
                 IncrementsPending(tasks, id)
                   + Cardinality({k \in 1..Len(gen'.out) : gen'.out[k].ID = id})]_vars
  /\ [][\A id \in RoundTripIDs :
          IncrementsPending(tasks', id) < IncrementsPending(tasks, id) =>
            /\ IncrementsPending(tasks', id) = IncrementsPending(tasks, id) - 1
            /\ UsageCountOf(generated', id) = UsageCountOf(generated, id) + 1
            /\ gen' = gen]_vars
  /\ \A id \in RoundTripIDs :
       (IncrementsPending(tasks, id) > 0) ~> (IncrementsPending(tasks, id) = 0)

\* a call over the cache has returned a question whose increment has not
\* run yet: the counter still has its value of before the call
C37_ReturnedBeforeIncrement ==
  /\ gen.pc = "done"
  /\ ~gen.useAI
  /\ gen.err = ""
  /\ Len(gen.out) >= 1
  /\ IncrementsPending(tasks, gen.out[1].ID) = 1
  /\ UsageCountOf(generated, gen.out[1].ID) = 1

\* the questions the Generate call has collected from the word lists
FallbackResults ==
  {gen.results[k] : k \in {j \in 1..Len(gen.results) :
                             /\ gen.results[j] # ZeroQuestion
                             /\ FromWordList(gen.results[j])}}

\* C38: a question Generate built from the fallback word list is never
\* written to the cache by that call, so a SubmitAnswer for its ID returns
\* the question-not-found error and stores no answer, unless the same ID was
\* persisted by another generation.
C38_FallbackQuestionNotAnswerable ==
  /\ [](/\ \A t \in BagToSet(tasks) : t.kind = "save" => ~FromWordList(t.q)
        /\ \A row \in generated :
             \A q \in FallbackResults :
               row.QuestionID = q.ID => row.CorrectAnswer # q.Answer
        /\ \A q \in saved : ~FromWordList(q))
  /\ [][\A req \in FallbackRequests :
          (/\ SubmitAnswer(req)
           /\ \E q \in FallbackResults : q.ID = req.QuestionID
           /\ ~HasGenerated(generated, req.QuestionID)) =>
            /\ resp'.kind = "error"
            /\ resp'.err = "question not found"
            /\ answers' = answers
            /\ generated' = generated]_vars

\* the answer to a returned fallback question was refused
C38_FallbackAnswerRefused ==
  /\ gen.pc = "done"
  /\ Len(gen.out) = 1
  /\ FallbackResults # {}
  /\ resp.kind = "error"
  /\ resp.err = "question not found"
  /\ resp.req.QuestionID = gen.out[1].ID
  /\ ~HasGenerated(generated, gen.out[1].ID)

\* the sum of the counts of a difficultyStats map
RECURSIVE SumOfCounts(_)
SumOfCounts(entries) ==
  IF entries = {} THEN 0
  ELSE LET e == CHOOSE x \in entries : TRUE
       IN  e[2] + SumOfCounts(entries \ {e})

\* the sums of the total counts and of the error counts of errorPatterns
RECURSIVE SumOfTotals(_)
SumOfTotals(patterns) ==
  IF patterns = {} THEN 0
  ELSE LET p == CHOOSE x \in patterns : TRUE
       IN  p.TotalCount + SumOfTotals(patterns \ {p})

RECURSIVE SumOfErrors(_)
SumOfErrors(patterns) ==
  IF patterns = {} THEN 0
  ELSE LET p == CHOOSE x \in patterns : TRUE
       IN  p.ErrorCount + SumOfErrors(patterns \ {p})

\* the arithmetic of a report over n stored answers
CountsAgree(n, total, correct, wrong, patterns, stats) ==
  /\ total = n
  /\ correct + wrong = total
  /\ SumOfCounts(stats) = total
  /\ \A p \in patterns : 0 <= p.ErrorCount /\ p.ErrorCount <= p.TotalCount
  /\ SumOfTotals(patterns) <= total
  /\ SumOfErrors(patterns) <= wrong

\* the report a call returned agrees with the answers the call read
ReportCountsAgree ==
  (rep.pc = "done" /\ rep.err = "") =>
    CountsAgree(Len(rep.answers), rep.report.TotalQuestions,
                rep.report.CorrectAnswers, rep.report.WrongAnswers,
                rep.report.ErrorPatterns, rep.report.DifficultyStats)

\* C39: in every report GenerateSessionReport returns, and in the cache row
\* of the session after the call, correct + wrong = total = the number of
\* stored answers of the session, the per-difficulty counts sum to total,
\* and for each letter pair 0 <= errors <= total, the pair totals summing to
\* at most total and the pair errors to at most wrong.
C39_ReportCountsAgree ==
  /\ ReportCountsAgree
  /\ (rep.pc = "done" /\ rep.err = "") =>
       \A row \in analysisCache :
         row.SessionID = rep.sessionID =>
           CountsAgree(Len(rep.answers), row.TotalQuestions,
                       row.CorrectAnswers, row.WrongAnswers,
                       row.ErrorPatterns[2], row.DifficultyStats[2])

====
